---- MODULE Spec2Model ----
(***************************************************************************)
(* RSA signature provider (providers/implementations/signature/rsa_sig.c). *)
(*                                                                         *)
(* The state is a small pool of PROV_RSA_CTX objects together with the     *)
(* heap buffers they point to (running digest contexts, temporary buffers, *)
(* buffered signatures) and the reference counts of the RSA keys.  Every   *)
(* entry point of the two dispatch tables (the composable "RSA" algorithm  *)
(* and the fixed sigalgs such as RSA-SHA2-256) is an operator on a world   *)
(* record; the actions apply one entry point to one context.               *)
(*                                                                         *)
(* Built without FIPS_MODULE: the OSSL_FIPS_IND_* macros expand to nothing *)
(* and ossl_prov_is_running() is taken to be true.                         *)
(***************************************************************************)
EXTENDS Integers, Sequences, FiniteSets, TLC

VARIABLES
    slot,     \* per context slot: live or not, and the dispatch table it uses
    ctx,      \* per context slot: the PROV_RSA_CTX fields
    mdctxs,   \* heap of EVP_MD_CTX objects
    tbufs,    \* heap of temporary buffers
    sigs,     \* heap of buffered signatures
    keyref,   \* reference count of each RSA key
    fault,    \* memory fault committed so far, "none" if none
    hist,     \* per context slot: what was called since the last init (history)
    twin      \* history: the contexts the last call, a dup that went through,
              \* copied from and to

vars == <<slot, ctx, mdctxs, tbufs, sigs, keyref, fault, hist, twin>>

(***************************************************************************)
(* Bounds of the model.                                                    *)
(***************************************************************************)
NCtx == 2          \* context slots, and addresses per heap
MaxData == 2       \* chunks a running digest accumulates

CtxIds == 1..NCtx
Addrs == 1..NCtx
NULL == 0

(***************************************************************************)
(* Program constants (openssl/rsa.h, openssl/evp.h as used by rsa_sig.c).  *)
(***************************************************************************)
RSA_PKCS1_PADDING == 1
RSA_NO_PADDING == 3
RSA_PKCS1_OAEP_PADDING == 4
RSA_X931_PADDING == 5
RSA_PKCS1_PSS_PADDING == 6

RSA_PSS_SALTLEN_DIGEST == -1
RSA_PSS_SALTLEN_AUTO == -2
RSA_PSS_SALTLEN_MAX == -3
RSA_PSS_SALTLEN_AUTO_DIGEST_MAX == -4

NID_undef == 0

EVP_PKEY_OP_SIGN == "SIGN"
EVP_PKEY_OP_VERIFY == "VERIFY"
EVP_PKEY_OP_VERIFYRECOVER == "VERIFYRECOVER"
EVP_PKEY_OP_SIGNMSG == "SIGNMSG"
EVP_PKEY_OP_VERIFYMSG == "VERIFYMSG"
OP_NONE == "0"     \* the zero a fresh context holds

RSA_FLAG_TYPE_RSA == "RSA"
RSA_FLAG_TYPE_RSASSAPSS == "RSASSAPSS"

RSA_DEFAULT_DIGEST_NAME == "SHA1"

(***************************************************************************)
(* Digest collaborator: fetch by name, identity, sizes and identifiers.    *)
(* "SHA256" and "SHA2-256" are two names of one digest; "SHAKE128" has no  *)
(* RSA signature identifier; "BOGUS" cannot be fetched.                    *)
(***************************************************************************)
NoMd == ""

EVP_MD_fetch(mdname) ==
    CASE mdname = "SHA1" -> "SHA1"
      [] mdname = "SHA256" -> "SHA2-256"
      [] mdname = "SHA2-256" -> "SHA2-256"
      [] mdname = "MD5" -> "MD5"
      [] mdname = "SHAKE128" -> "SHAKE-128"
      [] OTHER -> NoMd

\* EVP_MD_is_a(md, name): name is one of md's names.
EVP_MD_is_a(md, mdname) == md # NoMd /\ EVP_MD_fetch(mdname) = md

ossl_digest_rsa_sign_get_md_nid(md) ==
    CASE md = "SHA1" -> 64
      [] md = "SHA2-256" -> 672
      [] md = "MD5" -> 4
      [] OTHER -> NID_undef

EVP_MD_xof(md) == md = "SHAKE-128"

EVP_MD_get_size(md) ==
    CASE md = "SHA1" -> 20
      [] md = "SHA2-256" -> 32
      [] md = "MD5" -> 16
      [] md = "SHAKE-128" -> 0
      [] OTHER -> -1

RSA_X931_hash_id(nid) ==
    CASE nid = 64 -> 51
      [] nid = 672 -> 52
      [] OTHER -> -1

ossl_rsa_oaeppss_nid2name(nid) ==
    CASE nid = 64 -> "SHA1"
      [] nid = 672 -> "SHA2-256"
      [] OTHER -> ""

(***************************************************************************)
(* Key collaborator: the RSA objects a caller may pass.                    *)
(*   1: plain RSA, 2048 bits                                               *)
(*   2: RSA-PSS without parameter restrictions                             *)
(*   3: RSA-PSS restricted to SHA2-256 / MGF1-SHA1 / salt >= 24            *)
(*   4: RSA-PSS restricted, salt floor beyond what the modulus can hold    *)
(* Keys 1 to 4 have a modulus of 2048 bits.  Four more RSA-PSS keys        *)
(* without restrictions have other moduli:                                 *)
(*   5: 2041 bits, 256 bytes (bit length mod 8 is 1)                       *)
(*   6: 265 bits, 34 bytes (bit length mod 8 is 1)                         *)
(*   7: 264 bits, 33 bytes                                                 *)
(*   8: 16 bits, 2 bytes                                                   *)
(* and two more restricted RSA-PSS keys of 2048 bits, SHA2-256 / MGF1-SHA1:*)
(*   9: salt floor 223                                                     *)
(*  10: salt floor -2                                                      *)
(***************************************************************************)
Keys == 1..10

RSA_size(k) ==
    CASE k = 6 -> 34
      [] k = 7 -> 33
      [] k = 8 -> 2
      [] OTHER -> 256
RSA_bits(k) ==
    CASE k = 5 -> 2041
      [] k = 6 -> 265
      [] k = 7 -> 264
      [] k = 8 -> 16
      [] OTHER -> 2048
RSA_test_flags(k) == IF k = 1 THEN RSA_FLAG_TYPE_RSA ELSE RSA_FLAG_TYPE_RSASSAPSS
ossl_rsa_pss_params_30_is_unrestricted(k) == k \notin {3, 4, 9, 10}
ossl_rsa_pss_params_30_hashalg(k) == 672
ossl_rsa_pss_params_30_maskgenhashalg(k) == 64
ossl_rsa_pss_params_30_saltlen(k) ==
    CASE k = 3 -> 24
      [] k = 9 -> 223
      [] k = 10 -> -2
      [] OTHER -> 250

(***************************************************************************)
(* Values that travel through the interface.                               *)
(*   a to-be-signed value: its length, the digest that produced it ("raw"  *)
(*   for caller-supplied bytes) and the bytes digested;                    *)
(*   a signature: the key, padding, digest identifier, MGF1 digest and     *)
(*   salt length it was made with, and the value it signs.                 *)
(***************************************************************************)
Syms == {"a"}
Chunks == {<<x>> : x \in Syms}

Tbs(len, md, data) == [len |-> len, md |-> md, data |-> data]
NoTbs == Tbs(0, "", <<>>)

Signature(k, pad, nid, mgf, salt, tbs) ==
    [k |-> k, pad |-> pad, nid |-> nid, mgf |-> mgf, salt |-> salt, tbs |-> tbs]
NoSig == Signature(0, 0, 0, "", 0, NoTbs)
\* bytes that are no signature of any key
GarbageSig == Signature(0, 0, 0, "", 1, NoTbs)
\* length of the bytes of a signature: the modulus size of its key
SigLen(sg) == IF sg.k \in Keys THEN RSA_size(sg.k) ELSE 8

(***************************************************************************)
(* PROV_RSA_CTX as rsa_newctx leaves it: zeroed, flag_allow_md set, salt   *)
(* length AUTO_DIGEST_MAX, no salt floor.  Pointers are heap addresses.    *)
(***************************************************************************)
ZeroCtx ==
    [rsa |-> NULL, operation |-> OP_NONE,
     flag_sigalg |-> FALSE, flag_allow_md |-> FALSE, mgf1_md_set |-> FALSE,
     flag_allow_update |-> FALSE, flag_allow_final |-> FALSE,
     flag_allow_oneshot |-> FALSE,
     md |-> NoMd, mdctx |-> NULL, mdnid |-> NID_undef, mdname |-> "",
     pad_mode |-> 0,
     mgf1_md |-> NoMd, mgf1_mdnid |-> NID_undef, mgf1_mdname |-> "",
     saltlen |-> 0, min_saltlen |-> 0,
     sig |-> NULL, siglen |-> 0, tbuf |-> NULL]

rsa_newctx ==
    [ZeroCtx EXCEPT !.flag_allow_md = TRUE,
                    !.saltlen = RSA_PSS_SALTLEN_AUTO_DIGEST_MAX,
                    !.min_saltlen = -1]

rsa_pss_restricted(c) == c.min_saltlen # -1

rsa_get_md_size(c) ==
    IF c.md # NoMd
    THEN IF EVP_MD_get_size(c.md) <= 0 THEN 0 ELSE EVP_MD_get_size(c.md)
    ELSE 0

(***************************************************************************)
(* Heaps.  A cell is free (never handed out, or released and no longer     *)
(* pointed to), alloc, or freed while some context still points to it.     *)
(***************************************************************************)
FreeMdCtx == [st |-> "free", md |-> NoMd, data |-> <<>>, fin |-> FALSE]
FreeTbuf == [st |-> "free", dirty |-> FALSE]
FreeSigBuf == [st |-> "free", val |-> NoSig]

World == [ctx |-> ctx, mdctxs |-> mdctxs, tbufs |-> tbufs, sigs |-> sigs,
          keyref |-> keyref, fault |-> fault]

Min(S) == CHOOSE x \in S : \A y \in S : x <= y

\* addresses of heap h some context still holds in pointer field f
Held(w, f) == {w.ctx[j][f] : j \in CtxIds} \ {NULL}

\* OPENSSL_malloc / EVP_MD_CTX_new: the lowest address that is neither
\* allocated nor dangling; NULL when the heap is exhausted.
Malloc(w, h, f) ==
    LET avail == {a \in Addrs : w[h][a].st # "alloc" /\ a \notin Held(w, f)}
    IN IF avail = {} THEN NULL ELSE Min(avail)

\* OPENSSL_free / EVP_MD_CTX_free of address a in heap h.  Releasing a cell
\* that is not allocated is a double free.
Free(w, h, a) ==
    IF a = NULL THEN w
    ELSE IF w[h][a].st = "alloc"
         THEN [w EXCEPT ![h][a].st = "freed"]
         ELSE [w EXCEPT !.fault = "double_free"]

\* A released cell nobody points to any more is indistinguishable from a
\* fresh one.
Scrub(w, h, f, blank) ==
    [a \in Addrs |->
        IF w[h][a].st = "freed" /\ a \notin Held(w, f) THEN blank ELSE w[h][a]]

Settle(w) ==
    [w EXCEPT !.mdctxs = Scrub(w, "mdctxs", "mdctx", FreeMdCtx),
              !.tbufs = Scrub(w, "tbufs", "tbuf", FreeTbuf),
              !.sigs = Scrub(w, "sigs", "sig", FreeSigBuf)]

\* what a handler hands back: the world it leaves, its return value, the
\* error it raised ("" if none) and its output
Ret(w, ok, err, out) == [w |-> w, ok |-> ok, err |-> err, out |-> out]
NoOut == [size |-> 0, sig |-> NoSig, tbs |-> NoTbs]
OutSize(n) == [NoOut EXCEPT !.size = n]
OutSig(s, n) == [NoOut EXCEPT !.sig = s, !.size = n]
OutTbs(t) == [NoOut EXCEPT !.tbs = t, !.size = t.len]

SetCtx(w, i, c) == [w EXCEPT !.ctx[i] = c]

(***************************************************************************)
(* Parameters of set_ctx_params.  A field that is not in the array holds   *)
(* NoName (strings) or has its has_ flag false.  pad_mode is the string    *)
(* form ("pkcs1", "none", "x931", "pss", any other word) or the legacy     *)
(* integer form written "#n".                                              *)
(***************************************************************************)
NoName == "(null)"

Params(digest, pad, hsalt, salt, mgf1, hsig, sg) ==
    [digest |-> digest, pad_mode |-> pad, has_saltlen |-> hsalt,
     saltlen |-> salt, mgf1 |-> mgf1, has_sig |-> hsig, signature |-> sg]
EmptyParams == Params(NoName, NoName, FALSE, 0, NoName, FALSE, NoSig)

ossl_param_is_empty(p) ==
    /\ p.digest = NoName /\ p.pad_mode = NoName /\ ~p.has_saltlen
    /\ p.mgf1 = NoName /\ ~p.has_sig

\* padding_item lookup for the string form, OSSL_PARAM_get_int for "#n";
\* a word that is not in padding_item leaves pad_mode as it was
PadModeOf(word, current) ==
    CASE word = "pkcs1" -> RSA_PKCS1_PADDING
      [] word = "none" -> RSA_NO_PADDING
      [] word = "x931" -> RSA_X931_PADDING
      [] word = "pss" -> RSA_PKCS1_PSS_PADDING
      [] word = "#0" -> 0
      [] word = "#1" -> RSA_PKCS1_PADDING
      [] word = "#3" -> RSA_NO_PADDING
      [] word = "#4" -> RSA_PKCS1_OAEP_PADDING
      [] word = "#5" -> RSA_X931_PADDING
      [] word = "#6" -> RSA_PKCS1_PSS_PADDING
      [] OTHER -> current

Fail(w, err) == Ret(w, FALSE, err, NoOut)
Ok(w) == Ret(w, TRUE, "", NoOut)

\* "r && K": K runs on the world r left only if r returned 1
Then(r, K(_)) == IF r.ok THEN K(r.w) ELSE r

(***************************************************************************)
(* Padding Selector: compatibility check.                                  *)
(***************************************************************************)
rsa_check_padding(c, mdname, mgf1_mdname, mdnid) ==
    CASE c.pad_mode = RSA_NO_PADDING ->
           IF mdname # NoName \/ mdnid # NID_undef
           THEN "PROV_R_INVALID_PADDING_MODE" ELSE ""
      [] c.pad_mode = RSA_X931_PADDING ->
           IF RSA_X931_hash_id(mdnid) = -1
           THEN "PROV_R_INVALID_X931_DIGEST" ELSE ""
      [] c.pad_mode = RSA_PKCS1_PSS_PADDING ->
           IF /\ rsa_pss_restricted(c)
              /\ \/ (mdname # NoName /\ ~EVP_MD_is_a(c.md, mdname))
                 \/ (mgf1_mdname # NoName /\ ~EVP_MD_is_a(c.mgf1_md, mgf1_mdname))
           THEN "PROV_R_DIGEST_NOT_ALLOWED" ELSE ""
      [] OTHER -> ""

\* returns the context with the floor stored, or the error
rsa_check_parameters(c, min_saltlen) ==
    IF c.pad_mode = RSA_PKCS1_PSS_PADDING
    THEN LET m0 == RSA_size(c.rsa) - EVP_MD_get_size(c.md)
             max_saltlen == IF RSA_bits(c.rsa) % 8 = 1 THEN m0 - 1 ELSE m0
         IN IF min_saltlen < 0 \/ min_saltlen > max_saltlen
            THEN [err |-> "PROV_R_INVALID_SALT_LENGTH", c |-> c]
            ELSE [err |-> "", c |-> [c EXCEPT !.min_saltlen = min_saltlen]]
    ELSE [err |-> "", c |-> c]

\* a faulty digest binding: it binds the requested digest whether or not
\* flag_allow_md is set
setup_md_ignores_allow_md(w, i, mdname) ==
    LET c == w.ctx[i]
        md == EVP_MD_fetch(mdname)
        md_nid == ossl_digest_rsa_sign_get_md_nid(md)
        chk == rsa_check_padding(c, mdname, NoName, md_nid)
    IN IF mdname = NoName THEN Ok(w)
       ELSE IF md = NoMd THEN Fail(w, "PROV_R_INVALID_DIGEST")
       ELSE IF md_nid = NID_undef THEN Fail(w, "PROV_R_DIGEST_NOT_ALLOWED")
       ELSE IF EVP_MD_xof(md) THEN Fail(w, "PROV_R_XOF_DIGESTS_NOT_ALLOWED")
       ELSE IF chk # "" THEN Fail(w, chk)
       ELSE LET c1 == IF ~c.mgf1_md_set
                      THEN [c EXCEPT !.mgf1_md = md, !.mgf1_mdnid = md_nid,
                                     !.mgf1_mdname = mdname]
                      ELSE c
                w1 == Free(w, "mdctxs", c.mdctx)
                c2 == [c1 EXCEPT !.mdctx = NULL, !.md = md, !.mdnid = md_nid,
                                 !.mdname = mdname]
            IN Ok(SetCtx(w1, i, c2))

(***************************************************************************)
(* Digest Binding.  Every fetchable name fits the informational name       *)
(* buffers, so the "exceeds name buffer length" exits are not taken.       *)
(***************************************************************************)
\* a faulty digest binding: it copies the digest into the MGF1 digest also
\* when mgf1_md_set is set
setup_md_always_sets_mgf1(w, i, mdname) ==
    LET c == w.ctx[i]
        md == EVP_MD_fetch(mdname)
        md_nid == ossl_digest_rsa_sign_get_md_nid(md)
        chk == rsa_check_padding(c, mdname, NoName, md_nid)
    IN IF mdname = NoName THEN Ok(w)
       ELSE IF md = NoMd THEN Fail(w, "PROV_R_INVALID_DIGEST")
       ELSE IF md_nid = NID_undef THEN Fail(w, "PROV_R_DIGEST_NOT_ALLOWED")
       ELSE IF EVP_MD_xof(md) THEN Fail(w, "PROV_R_XOF_DIGESTS_NOT_ALLOWED")
       ELSE IF chk # "" THEN Fail(w, chk)
       ELSE IF ~c.flag_allow_md
            THEN IF c.mdname # "" /\ ~EVP_MD_is_a(md, c.mdname)
                 THEN Fail(w, "PROV_R_DIGEST_NOT_ALLOWED")
                 ELSE Ok(w)
       ELSE LET c1 == [c EXCEPT !.mgf1_md = md, !.mgf1_mdnid = md_nid,
                                !.mgf1_mdname = mdname]
                w1 == Free(w, "mdctxs", c.mdctx)
                c2 == [c1 EXCEPT !.mdctx = NULL, !.md = md, !.mdnid = md_nid,
                                 !.mdname = mdname]
            IN Ok(SetCtx(w1, i, c2))

rsa_setup_md(w, i, mdname) ==
    LET c == w.ctx[i]
        md == EVP_MD_fetch(mdname)
        md_nid == ossl_digest_rsa_sign_get_md_nid(md)
        chk == rsa_check_padding(c, mdname, NoName, md_nid)
    IN IF mdname = NoName THEN Ok(w)
       ELSE IF md = NoMd THEN Fail(w, "PROV_R_INVALID_DIGEST")
       ELSE IF md_nid = NID_undef THEN Fail(w, "PROV_R_DIGEST_NOT_ALLOWED")
       ELSE IF EVP_MD_xof(md) THEN Fail(w, "PROV_R_XOF_DIGESTS_NOT_ALLOWED")
       ELSE IF chk # "" THEN Fail(w, chk)
       ELSE IF ~c.flag_allow_md
            THEN IF c.mdname # "" /\ ~EVP_MD_is_a(md, c.mdname)
                 THEN Fail(w, "PROV_R_DIGEST_NOT_ALLOWED")
                 ELSE Ok(w)
       ELSE LET c1 == IF ~c.mgf1_md_set
                      THEN [c EXCEPT !.mgf1_md = md, !.mgf1_mdnid = md_nid,
                                     !.mgf1_mdname = mdname]
                      ELSE c
                w1 == Free(w, "mdctxs", c.mdctx)
                c2 == [c1 EXCEPT !.mdctx = NULL, !.md = md, !.mdnid = md_nid,
                                 !.mdname = mdname]
            IN Ok(SetCtx(w1, i, c2))

rsa_setup_mgf1_md(w, i, mdname) ==
    LET c == w.ctx[i]
        md == EVP_MD_fetch(mdname)
        mdnid == ossl_digest_rsa_sign_get_md_nid(md)
        chk == rsa_check_padding(c, NoName, mdname, mdnid)
    IN IF md = NoMd THEN Fail(w, "PROV_R_INVALID_DIGEST")
       ELSE IF mdnid <= 0 THEN Fail(w, "PROV_R_DIGEST_NOT_ALLOWED")
       ELSE IF chk # "" THEN Fail(w, chk)
       ELSE Ok(SetCtx(w, i, [c EXCEPT !.mgf1_mdname = mdname, !.mgf1_md = md,
                                      !.mgf1_mdnid = mdnid,
                                      !.mgf1_md_set = TRUE]))

\* a faulty pad mode switch: PSS is accepted whatever the operation is
pad_mode_switch_pss_anywhere(c, pad_mode) ==
    CASE pad_mode = RSA_PKCS1_OAEP_PADDING ->
           "PROV_R_ILLEGAL_OR_UNSUPPORTED_PADDING_MODE"
      [] pad_mode = RSA_PKCS1_PSS_PADDING -> ""
      [] pad_mode \in {RSA_PKCS1_PADDING, RSA_NO_PADDING, RSA_X931_PADDING} ->
           IF RSA_test_flags(c.rsa) = RSA_FLAG_TYPE_RSA
           THEN "" ELSE "PROV_R_ILLEGAL_OR_UNSUPPORTED_PADDING_MODE"
      [] OTHER -> "PROV_R_ILLEGAL_OR_UNSUPPORTED_PADDING_MODE"

(***************************************************************************)
(* Context Parameter Store: rsa_set_ctx_params (composable algorithm).     *)
(***************************************************************************)
\* the pad mode switch: "" to go on, else the error raised
\* a faulty switch: PKCS#1 v1.5, X9.31 and no padding pass for every key type
pad_switch_any_key(c, pad_mode) ==
    CASE pad_mode = RSA_PKCS1_OAEP_PADDING ->
           "PROV_R_ILLEGAL_OR_UNSUPPORTED_PADDING_MODE"
      [] pad_mode = RSA_PKCS1_PSS_PADDING ->
           IF c.operation \notin {EVP_PKEY_OP_SIGN, EVP_PKEY_OP_SIGNMSG,
                                  EVP_PKEY_OP_VERIFY, EVP_PKEY_OP_VERIFYMSG}
           THEN "PROV_R_ILLEGAL_OR_UNSUPPORTED_PADDING_MODE" ELSE ""
      [] pad_mode \in {RSA_PKCS1_PADDING, RSA_NO_PADDING, RSA_X931_PADDING} -> ""
      [] OTHER -> "PROV_R_ILLEGAL_OR_UNSUPPORTED_PADDING_MODE"

PadModeSwitch(c, pad_mode) ==
    CASE pad_mode = RSA_PKCS1_OAEP_PADDING ->
           "PROV_R_ILLEGAL_OR_UNSUPPORTED_PADDING_MODE"
      [] pad_mode = RSA_PKCS1_PSS_PADDING ->
           IF c.operation \notin {EVP_PKEY_OP_SIGN, EVP_PKEY_OP_SIGNMSG,
                                  EVP_PKEY_OP_VERIFY, EVP_PKEY_OP_VERIFYMSG}
           THEN "PROV_R_ILLEGAL_OR_UNSUPPORTED_PADDING_MODE" ELSE ""
      [] pad_mode \in {RSA_PKCS1_PADDING, RSA_NO_PADDING, RSA_X931_PADDING} ->
           IF RSA_test_flags(c.rsa) = RSA_FLAG_TYPE_RSA
           THEN "" ELSE "PROV_R_ILLEGAL_OR_UNSUPPORTED_PADDING_MODE"
      [] OTHER -> "PROV_R_ILLEGAL_OR_UNSUPPORTED_PADDING_MODE"

\* a faulty salt length check: it does not look at the pad mode
salt_len_check_any_pad(c, pad_mode, saltlen) ==
    IF saltlen < RSA_PSS_SALTLEN_AUTO_DIGEST_MAX
    THEN "PROV_R_INVALID_SALT_LENGTH"
    ELSE IF ~rsa_pss_restricted(c) THEN ""
    ELSE IF saltlen \in {RSA_PSS_SALTLEN_AUTO, RSA_PSS_SALTLEN_AUTO_DIGEST_MAX}
         THEN IF c.operation \notin {EVP_PKEY_OP_VERIFY, EVP_PKEY_OP_VERIFYMSG}
              THEN "PROV_R_INVALID_SALT_LENGTH" ELSE ""
    ELSE IF saltlen = RSA_PSS_SALTLEN_DIGEST
         THEN IF c.min_saltlen > EVP_MD_get_size(c.md)
              THEN "PROV_R_PSS_SALTLEN_TOO_SMALL" ELSE ""
    ELSE IF saltlen >= 0 /\ saltlen < c.min_saltlen
         THEN "PROV_R_PSS_SALTLEN_TOO_SMALL" ELSE ""

\* the salt length checks: "" to go on, else the error raised
SaltLenCheck(c, pad_mode, saltlen) ==
    IF pad_mode # RSA_PKCS1_PSS_PADDING THEN "PROV_R_NOT_SUPPORTED"
    ELSE IF saltlen < RSA_PSS_SALTLEN_AUTO_DIGEST_MAX
         THEN "PROV_R_INVALID_SALT_LENGTH"
    ELSE IF ~rsa_pss_restricted(c) THEN ""
    ELSE IF saltlen \in {RSA_PSS_SALTLEN_AUTO, RSA_PSS_SALTLEN_AUTO_DIGEST_MAX}
         THEN IF c.operation \notin {EVP_PKEY_OP_VERIFY, EVP_PKEY_OP_VERIFYMSG}
              THEN "PROV_R_INVALID_SALT_LENGTH" ELSE ""
    ELSE IF saltlen = RSA_PSS_SALTLEN_DIGEST
         THEN IF c.min_saltlen > EVP_MD_get_size(c.md)
              THEN "PROV_R_PSS_SALTLEN_TOO_SMALL" ELSE ""
    ELSE IF saltlen >= 0 /\ saltlen < c.min_saltlen
         THEN "PROV_R_PSS_SALTLEN_TOO_SMALL" ELSE ""

rsa_set_ctx_params(w, i, p) ==
    LET c == w.ctx[i]
        pad_mode == IF p.pad_mode # NoName
                    THEN PadModeOf(p.pad_mode, c.pad_mode) ELSE c.pad_mode
        saltlen == IF p.has_saltlen THEN p.saltlen ELSE c.saltlen
        padErr == IF p.pad_mode # NoName THEN PadModeSwitch(c, pad_mode) ELSE ""
        saltErr == IF p.has_saltlen THEN SaltLenCheck(c, pad_mode, saltlen) ELSE ""
        pmdname == IF c.md = NoMd /\ p.digest = NoName
                      /\ pad_mode = RSA_PKCS1_PSS_PADDING
                   THEN RSA_DEFAULT_DIGEST_NAME ELSE p.digest
        assign(w0) == SetCtx(w0, i, [w0.ctx[i] EXCEPT !.saltlen = saltlen,
                                                     !.pad_mode = pad_mode])
        mgf1(w1) == IF p.mgf1 # NoName THEN rsa_setup_mgf1_md(w1, i, p.mgf1)
                    ELSE Ok(w1)
        check(w2, err) == IF err # "" THEN Fail(w2, err) ELSE Ok(w2)
        digest(w2) ==
            IF pmdname # NoName THEN rsa_setup_md(w2, i, pmdname)
            ELSE check(w2, rsa_check_padding(w2.ctx[i], NoName, NoName,
                                             w2.ctx[i].mdnid))
    IN IF ossl_param_is_empty(p) THEN Ok(w)
       ELSE IF padErr # "" THEN Fail(w, padErr)
       ELSE IF saltErr # "" THEN Fail(w, saltErr)
       ELSE IF p.mgf1 # NoName /\ pad_mode # RSA_PKCS1_PSS_PADDING
            THEN Fail(w, "PROV_R_INVALID_MGF1_MD")
       ELSE Then(mgf1(assign(w)), digest)

(***************************************************************************)
(* Sigalg parameter store: only the signature to verify can be set, and    *)
(* only for VERIFYMSG.  OSSL_PARAM_get_octet_string allocates the copy;    *)
(* when the heap is exhausted it fails and leaves sig NULL.                *)
(***************************************************************************)
rsa_sigalg_set_ctx_params(w, i, p) ==
    LET c == w.ctx[i]
        drop(w0) == SetCtx(Free(w0, "sigs", c.sig), i,
                           [c EXCEPT !.sig = NULL, !.siglen = 0])
        store(w2, a) ==
            IF a = NULL THEN Fail(w2, "")
            ELSE Ok([SetCtx(w2, i, [w2.ctx[i] EXCEPT !.sig = a,
                                                    !.siglen = SigLen(p.signature)])
                       EXCEPT !.sigs[a] = [st |-> "alloc", val |-> p.signature]])
        get(w2) == store(w2, Malloc(w2, "sigs", "sig"))
    IN IF ossl_param_is_empty(p) THEN Ok(w)
       ELSE IF c.operation = EVP_PKEY_OP_VERIFYMSG /\ p.has_sig
            THEN get(drop(w))
       ELSE Ok(w)

set_ctx_params(fn, w, i, p) ==
    IF fn = "rsa_sigalg_set_ctx_params"
    THEN rsa_sigalg_set_ctx_params(w, i, p)
    ELSE rsa_set_ctx_params(w, i, p)

(***************************************************************************)
(* init.  The key is replaced first; the lifecycle flags, the salt policy  *)
(* and the pad mode are set before the key's PSS restrictions and the      *)
(* initial parameters are applied, so a failing init keeps those writes.   *)
(* ossl_rsa_key_op_get_protect succeeds for the five signature operations. *)
(***************************************************************************)
RSA_up_ref(w, k) == [w EXCEPT !.keyref[k] = @ + 1]
RSA_free(w, k) == IF k = NULL THEN w ELSE [w EXCEPT !.keyref[k] = @ - 1]

\* the RSA-PSS branch for a key with restricted parameters
PssRestrictedInit(w, i) ==
    LET c == w.ctx[i]
        md_nid == ossl_rsa_pss_params_30_hashalg(c.rsa)
        mgf1md_nid == ossl_rsa_pss_params_30_maskgenhashalg(c.rsa)
        min_saltlen == ossl_rsa_pss_params_30_saltlen(c.rsa)
        mdname == ossl_rsa_oaeppss_nid2name(md_nid)
        mgf1mdname == ossl_rsa_oaeppss_nid2name(mgf1md_nid)
        names(w0) == SetCtx(w0, i, [c EXCEPT !.mdname = mdname,
                                             !.mgf1_mdname = mgf1mdname,
                                             !.saltlen = min_saltlen])
        mgf1(w1) == rsa_setup_mgf1_md(w1, i, mgf1mdname)
        md(w2) == rsa_setup_md(w2, i, mdname)
        store(w3, r3) == IF r3.err # "" THEN Fail(w3, r3.err)
                         ELSE Ok(SetCtx(w3, i, r3.c))
        params(w3) == store(w3, rsa_check_parameters(w3.ctx[i], min_saltlen))
    IN IF mdname = "" THEN Fail(w, "PROV_R_INVALID_DIGEST")
       ELSE IF mgf1mdname = "" THEN Fail(w, "PROV_R_INVALID_DIGEST")
       ELSE Then(Then(mgf1(names(w)), md), params)

\* a faulty init: it does not set flag_allow_oneshot
signverify_init_keeps_oneshot(w, i, vrsa, fn, params, operation) ==
    LET \* the key is replaced: RSA_up_ref(vrsa), RSA_free(old), rsa = vrsa
        bind(w0) ==
            IF vrsa # NULL
            THEN SetCtx(RSA_free(RSA_up_ref(w0, vrsa), w0.ctx[i].rsa), i,
                        [w0.ctx[i] EXCEPT !.rsa = vrsa])
            ELSE w0
        reset(w1) ==
            SetCtx(w1, i,
                   [w1.ctx[i] EXCEPT
                      !.operation = operation,
                      !.flag_allow_update = TRUE,
                      !.flag_allow_final = TRUE,
                      !.saltlen = RSA_PSS_SALTLEN_AUTO_DIGEST_MAX,
                      !.min_saltlen = -1,
                      !.pad_mode = IF RSA_test_flags(w1.ctx[i].rsa) = RSA_FLAG_TYPE_RSA
                                   THEN RSA_PKCS1_PADDING
                                   ELSE RSA_PKCS1_PSS_PADDING])
        restrict(w3) ==
            IF /\ RSA_test_flags(w3.ctx[i].rsa) = RSA_FLAG_TYPE_RSASSAPSS
               /\ ~ossl_rsa_pss_params_30_is_unrestricted(w3.ctx[i].rsa)
            THEN PssRestrictedInit(w3, i) ELSE Ok(w3)
        apply(w4) == set_ctx_params(fn, w4, i, params)
    IN IF vrsa = NULL /\ w.ctx[i].rsa = NULL THEN Fail(w, "PROV_R_NO_KEY_SET")
       ELSE Then(restrict(reset(bind(w))), apply)

\* a faulty init: it wants a key in every call
signverify_init_needs_key(w, i, vrsa, fn, params, operation) ==
    LET \* the key is replaced: RSA_up_ref(vrsa), RSA_free(old), rsa = vrsa
        bind(w0) ==
            IF vrsa # NULL
            THEN SetCtx(RSA_free(RSA_up_ref(w0, vrsa), w0.ctx[i].rsa), i,
                        [w0.ctx[i] EXCEPT !.rsa = vrsa])
            ELSE w0
        reset(w1) ==
            SetCtx(w1, i,
                   [w1.ctx[i] EXCEPT
                      !.operation = operation,
                      !.flag_allow_update = TRUE,
                      !.flag_allow_final = TRUE,
                      !.flag_allow_oneshot = TRUE,
                      !.saltlen = RSA_PSS_SALTLEN_AUTO_DIGEST_MAX,
                      !.min_saltlen = -1,
                      !.pad_mode = IF RSA_test_flags(w1.ctx[i].rsa) = RSA_FLAG_TYPE_RSA
                                   THEN RSA_PKCS1_PADDING
                                   ELSE RSA_PKCS1_PSS_PADDING])
        restrict(w3) ==
            IF /\ RSA_test_flags(w3.ctx[i].rsa) = RSA_FLAG_TYPE_RSASSAPSS
               /\ ~ossl_rsa_pss_params_30_is_unrestricted(w3.ctx[i].rsa)
            THEN PssRestrictedInit(w3, i) ELSE Ok(w3)
        apply(w4) == set_ctx_params(fn, w4, i, params)
    IN IF vrsa = NULL THEN Fail(w, "PROV_R_NO_KEY_SET")
       ELSE Then(restrict(reset(bind(w))), apply)

\* a faulty init: it leaves saltlen and min_saltlen as they were
signverify_init_keeps_salt(w, i, vrsa, fn, params, operation) ==
    LET \* the key is replaced: RSA_up_ref(vrsa), RSA_free(old), rsa = vrsa
        bind(w0) ==
            IF vrsa # NULL
            THEN SetCtx(RSA_free(RSA_up_ref(w0, vrsa), w0.ctx[i].rsa), i,
                        [w0.ctx[i] EXCEPT !.rsa = vrsa])
            ELSE w0
        reset(w1) ==
            SetCtx(w1, i,
                   [w1.ctx[i] EXCEPT
                      !.operation = operation,
                      !.flag_allow_update = TRUE,
                      !.flag_allow_final = TRUE,
                      !.flag_allow_oneshot = TRUE,
                      !.pad_mode = IF RSA_test_flags(w1.ctx[i].rsa) = RSA_FLAG_TYPE_RSA
                                   THEN RSA_PKCS1_PADDING
                                   ELSE RSA_PKCS1_PSS_PADDING])
        restrict(w3) ==
            IF /\ RSA_test_flags(w3.ctx[i].rsa) = RSA_FLAG_TYPE_RSASSAPSS
               /\ ~ossl_rsa_pss_params_30_is_unrestricted(w3.ctx[i].rsa)
            THEN PssRestrictedInit(w3, i) ELSE Ok(w3)
        apply(w4) == set_ctx_params(fn, w4, i, params)
    IN IF vrsa = NULL /\ w.ctx[i].rsa = NULL THEN Fail(w, "PROV_R_NO_KEY_SET")
       ELSE Then(restrict(reset(bind(w))), apply)

rsa_signverify_init(w, i, vrsa, fn, params, operation) ==
    LET \* the key is replaced: RSA_up_ref(vrsa), RSA_free(old), rsa = vrsa
        bind(w0) ==
            IF vrsa # NULL
            THEN SetCtx(RSA_free(RSA_up_ref(w0, vrsa), w0.ctx[i].rsa), i,
                        [w0.ctx[i] EXCEPT !.rsa = vrsa])
            ELSE w0
        reset(w1) ==
            SetCtx(w1, i,
                   [w1.ctx[i] EXCEPT
                      !.operation = operation,
                      !.flag_allow_update = TRUE,
                      !.flag_allow_final = TRUE,
                      !.flag_allow_oneshot = TRUE,
                      !.saltlen = RSA_PSS_SALTLEN_AUTO_DIGEST_MAX,
                      !.min_saltlen = -1,
                      !.pad_mode = IF RSA_test_flags(w1.ctx[i].rsa) = RSA_FLAG_TYPE_RSA
                                   THEN RSA_PKCS1_PADDING
                                   ELSE RSA_PKCS1_PSS_PADDING])
        restrict(w3) ==
            IF /\ RSA_test_flags(w3.ctx[i].rsa) = RSA_FLAG_TYPE_RSASSAPSS
               /\ ~ossl_rsa_pss_params_30_is_unrestricted(w3.ctx[i].rsa)
            THEN PssRestrictedInit(w3, i) ELSE Ok(w3)
        apply(w4) == set_ctx_params(fn, w4, i, params)
    IN IF vrsa = NULL /\ w.ctx[i].rsa = NULL THEN Fail(w, "PROV_R_NO_KEY_SET")
       ELSE Then(restrict(reset(bind(w))), apply)

rsa_sign_init(w, i, vrsa, params) ==
    rsa_signverify_init(w, i, vrsa, "rsa_set_ctx_params", params, EVP_PKEY_OP_SIGN)

rsa_verify_init(w, i, vrsa, params) ==
    rsa_signverify_init(w, i, vrsa, "rsa_set_ctx_params", params, EVP_PKEY_OP_VERIFY)

rsa_verify_recover_init(w, i, vrsa, params) ==
    rsa_signverify_init(w, i, vrsa, "rsa_set_ctx_params", params,
                        EVP_PKEY_OP_VERIFYRECOVER)

(***************************************************************************)
(* Running digest (EVP_MD_CTX collaborator).  Init with a NULL digest      *)
(* fails; update and final fail on a finalised context.                    *)
(***************************************************************************)
EVP_DigestInit_ex2(cell, md) == [cell EXCEPT !.md = md, !.data = <<>>, !.fin = FALSE]
EVP_DigestUpdate(cell, data) == [cell EXCEPT !.data = @ \o data]
EVP_DigestFinal_ex(cell) == [cell EXCEPT !.fin = TRUE]
DigestValue(cell) == Tbs(EVP_MD_get_size(cell.md), cell.md, cell.data)

\* the tail shared by rsa_digest_signverify_init and
\* rsa_sigalg_signverify_init: make sure mdctx exists and initialise it
MdCtxSetup(w, i) ==
    LET c == w.ctx[i]
        init(a) ==
            IF a = NULL THEN Fail(w, "")
            ELSE IF c.md = NoMd
                 \* error: EVP_MD_CTX_free(mdctx); mdctx = NULL
                 THEN Fail(SetCtx(Free([w EXCEPT !.mdctxs[a].st = "alloc"],
                                       "mdctxs", a),
                                  i, [c EXCEPT !.mdctx = NULL]),
                           "EVP_R_NO_DEFAULT_DIGEST")
            ELSE Ok([SetCtx(w, i, [c EXCEPT !.mdctx = a])
                       EXCEPT !.mdctxs[a] =
                           EVP_DigestInit_ex2([w.mdctxs[a] EXCEPT !.st = "alloc"],
                                              c.md)])
    IN init(IF c.mdctx = NULL THEN Malloc(w, "mdctxs", "mdctx") ELSE c.mdctx)

rsa_digest_signverify_init(w, i, mdname, vrsa, params, operation) ==
    LET \* was rsa_setup_md already called in rsa_signverify_init()?
        setmd(w1) ==
            IF mdname # NoName /\ (mdname = "" \/ w1.ctx[i].mdname # mdname)
            THEN rsa_setup_md(w1, i, mdname) ELSE Ok(w1)
        tail(w2) ==
            MdCtxSetup(SetCtx(w2, i, [w2.ctx[i] EXCEPT !.flag_allow_md = FALSE]), i)
    IN Then(Then(rsa_signverify_init(w, i, vrsa, "rsa_set_ctx_params", params,
                                     operation),
                 setmd),
            tail)

rsa_digest_sign_init(w, i, mdname, vrsa, params) ==
    rsa_digest_signverify_init(w, i, mdname, vrsa, params, EVP_PKEY_OP_SIGNMSG)

rsa_digest_verify_init(w, i, mdname, vrsa, params) ==
    rsa_digest_signverify_init(w, i, mdname, vrsa, params, EVP_PKEY_OP_VERIFYMSG)

\* a faulty sigalg init: it goes on with an RSA-PSS key
sigalg_init_allows_pss(w, i, vrsa, params, mdname, operation, pad_mode) ==
    LET nopss(w1) == rsa_setup_md(w1, i, mdname)
        tail(w2) ==
            MdCtxSetup(SetCtx(w2, i, [w2.ctx[i] EXCEPT !.pad_mode = pad_mode,
                                                      !.flag_sigalg = TRUE,
                                                      !.flag_allow_md = FALSE]), i)
    IN Then(Then(rsa_signverify_init(w, i, vrsa, "rsa_sigalg_set_ctx_params",
                                     params, operation),
                 nopss),
            tail)

rsa_sigalg_signverify_init(w, i, vrsa, params, mdname, operation, pad_mode) ==
    LET \* PSS is currently not supported as a sigalg
        nopss(w1) ==
            IF w1.ctx[i].pad_mode = RSA_PKCS1_PSS_PADDING
            THEN Fail(w1, "PROV_R_OPERATION_NOT_SUPPORTED_FOR_THIS_KEYTYPE")
            ELSE rsa_setup_md(w1, i, mdname)
        tail(w2) ==
            MdCtxSetup(SetCtx(w2, i, [w2.ctx[i] EXCEPT !.pad_mode = pad_mode,
                                                      !.flag_sigalg = TRUE,
                                                      !.flag_allow_md = FALSE]), i)
    IN Then(Then(rsa_signverify_init(w, i, vrsa, "rsa_sigalg_set_ctx_params",
                                     params, operation),
                 nopss),
            tail)

(***************************************************************************)
(* RSA primitive collaborator, on symbolic values.                         *)
(***************************************************************************)
\* RSA_private_encrypt(flen, ..., padding): the padding must be one the
\* primitive knows and the input must fit it
RSA_private_encrypt_ok(k, flen, padding) ==
    CASE padding = RSA_PKCS1_PADDING -> flen <= RSA_size(k) - 11
      [] padding = RSA_NO_PADDING -> flen = RSA_size(k)
      [] padding = RSA_X931_PADDING -> flen <= RSA_size(k) - 2
      [] OTHER -> FALSE

\* RSA_sign: DigestInfo (at most 19 bytes of header) under PKCS#1 v1.5
RSA_sign_ok(k, tbslen) == tbslen + 19 <= RSA_size(k) - 11

\* the PSS encoder's own reading of the salt length request: the salt
\* length used, or -1 when it refuses
PssEncodeSaltLen(k, md, sLen) ==
    LET hLen == EVP_MD_get_size(md)
        emLen == IF (RSA_bits(k) - 1) % 8 = 0 THEN RSA_size(k) - 1 ELSE RSA_size(k)
        room == emLen - hLen - 2
    IN IF hLen <= 0 THEN -1
       ELSE IF sLen < RSA_PSS_SALTLEN_AUTO_DIGEST_MAX THEN -1
       ELSE IF emLen < hLen + 2 THEN -1
       ELSE IF sLen = RSA_PSS_SALTLEN_DIGEST
            THEN IF hLen > room THEN -1 ELSE hLen
       ELSE IF sLen = RSA_PSS_SALTLEN_AUTO_DIGEST_MAX
            THEN IF room > hLen THEN hLen ELSE room
       ELSE IF sLen < 0 THEN room
       ELSE IF sLen > room THEN -1 ELSE sLen

\* the PSS verifier accepts a decoded block whose salt length fits the
\* request: DIGEST and MAX name one length, AUTO and AUTO_DIGEST_MAX any
PssVerifySaltOk(k, md, sLen, actual) ==
    LET hLen == EVP_MD_get_size(md)
        emLen == IF (RSA_bits(k) - 1) % 8 = 0 THEN RSA_size(k) - 1 ELSE RSA_size(k)
    IN CASE sLen = RSA_PSS_SALTLEN_DIGEST -> actual = hLen
         [] sLen = RSA_PSS_SALTLEN_MAX -> actual = emLen - hLen - 2
         [] sLen \in {RSA_PSS_SALTLEN_AUTO, RSA_PSS_SALTLEN_AUTO_DIGEST_MAX} -> TRUE
         [] sLen < RSA_PSS_SALTLEN_AUTO_DIGEST_MAX -> FALSE
         [] OTHER -> actual = sLen

(***************************************************************************)
(* Temporary working buffer.                                               *)
(***************************************************************************)
setup_tbuf(w, i) ==
    LET c == w.ctx[i]
        a == Malloc(w, "tbufs", "tbuf")
    IN IF c.tbuf # NULL THEN Ok(w)
       ELSE IF a = NULL THEN Fail(w, "")
       ELSE Ok([SetCtx(w, i, [c EXCEPT !.tbuf = a])
                  EXCEPT !.tbufs[a] = [st |-> "alloc", dirty |-> FALSE]])

\* a transform wrote into tbuf
WriteTbuf(w, i) == [w EXCEPT !.tbufs[w.ctx[i].tbuf].dirty = TRUE]

clean_tbuf(w, i) ==
    IF w.ctx[i].tbuf # NULL
    THEN [w EXCEPT !.tbufs[w.ctx[i].tbuf].dirty = FALSE] ELSE w

free_tbuf(w, i) ==
    LET w1 == clean_tbuf(w, i)
    IN SetCtx(Free(w1, "tbufs", w.ctx[i].tbuf), i, [w1.ctx[i] EXCEPT !.tbuf = NULL])

(***************************************************************************)
(* Sign Transform.  sig is TRUE when the caller passes a destination       *)
(* buffer, of capacity sigsize.                                            *)
(***************************************************************************)
\* the PSS restriction check made at sign time: "" or the error
\* a faulty check: a concrete salt length is not compared with the floor
sign_floor_digest_only(c) ==
    IF ~rsa_pss_restricted(c) THEN ""
    ELSE IF c.saltlen = RSA_PSS_SALTLEN_DIGEST
            /\ c.min_saltlen > EVP_MD_get_size(c.md)
         THEN "PROV_R_PSS_SALTLEN_TOO_SMALL"
    ELSE ""

PssSignFloorCheck(c) ==
    IF ~rsa_pss_restricted(c) THEN ""
    ELSE IF c.saltlen = RSA_PSS_SALTLEN_DIGEST
            /\ c.min_saltlen > EVP_MD_get_size(c.md)
         THEN "PROV_R_PSS_SALTLEN_TOO_SMALL"
    ELSE IF c.saltlen >= 0 /\ c.saltlen < c.min_saltlen
         THEN "PROV_R_PSS_SALTLEN_TOO_SMALL"
    ELSE ""

\* a faulty sign: it does not compare the capacity with the modulus size
sign_directly_any_size(w, i, sig, sigsize, tbs) ==
    LET c == w.ctx[i]
        rsasize == RSA_size(c.rsa)
        mdsize == rsa_get_md_size(c)
        tb == setup_tbuf(w, i)
        done(w1, sg) == Ret(w1, TRUE, "", OutSig(sg, rsasize))
        x931 ==
            IF rsasize < tbs.len + 1 THEN Fail(w, "PROV_R_KEY_SIZE_TOO_SMALL")
            ELSE IF ~tb.ok THEN Fail(w, "ERR_R_PROV_LIB")
            ELSE IF ~RSA_private_encrypt_ok(c.rsa, tbs.len + 1, RSA_X931_PADDING)
                 THEN Fail(clean_tbuf(WriteTbuf(tb.w, i), i), "ERR_R_RSA_LIB")
            ELSE done(clean_tbuf(WriteTbuf(tb.w, i), i),
                      Signature(c.rsa, RSA_X931_PADDING, c.mdnid, "", 0, tbs))
        pkcs1 ==
            IF ~RSA_sign_ok(c.rsa, tbs.len) THEN Fail(w, "ERR_R_RSA_LIB")
            ELSE done(w, Signature(c.rsa, RSA_PKCS1_PADDING, c.mdnid, "", 0, tbs))
        sLen == PssEncodeSaltLen(c.rsa, c.md, c.saltlen)
        pss ==
            IF PssSignFloorCheck(c) # "" THEN Fail(w, PssSignFloorCheck(c))
            ELSE IF ~tb.ok THEN Fail(w, "")
            ELSE IF sLen < 0 THEN Fail(tb.w, "ERR_R_RSA_LIB")
            ELSE done(clean_tbuf(WriteTbuf(tb.w, i), i),
                      Signature(c.rsa, RSA_PKCS1_PSS_PADDING, c.mdnid,
                                c.mgf1_md, sLen, tbs))
        nomd ==
            IF ~RSA_private_encrypt_ok(c.rsa, tbs.len, c.pad_mode)
            THEN Fail(w, "ERR_R_RSA_LIB")
            ELSE done(w, Signature(c.rsa, c.pad_mode, NID_undef, "", 0, tbs))
    IN IF ~sig THEN Ret(w, TRUE, "", OutSize(rsasize))
       ELSE IF mdsize = 0 THEN nomd
       ELSE IF tbs.len # mdsize THEN Fail(w, "PROV_R_INVALID_DIGEST_LENGTH")
       ELSE CASE c.pad_mode = RSA_X931_PADDING -> x931
              [] c.pad_mode = RSA_PKCS1_PADDING -> pkcs1
              [] c.pad_mode = RSA_PKCS1_PSS_PADDING -> pss
              [] OTHER -> Fail(w, "PROV_R_INVALID_PADDING_MODE")

rsa_sign_directly(w, i, sig, sigsize, tbs) ==
    LET c == w.ctx[i]
        rsasize == RSA_size(c.rsa)
        mdsize == rsa_get_md_size(c)
        tb == setup_tbuf(w, i)
        done(w1, sg) == Ret(w1, TRUE, "", OutSig(sg, rsasize))
        x931 ==
            IF rsasize < tbs.len + 1 THEN Fail(w, "PROV_R_KEY_SIZE_TOO_SMALL")
            ELSE IF ~tb.ok THEN Fail(w, "ERR_R_PROV_LIB")
            ELSE IF ~RSA_private_encrypt_ok(c.rsa, tbs.len + 1, RSA_X931_PADDING)
                 THEN Fail(clean_tbuf(WriteTbuf(tb.w, i), i), "ERR_R_RSA_LIB")
            ELSE done(clean_tbuf(WriteTbuf(tb.w, i), i),
                      Signature(c.rsa, RSA_X931_PADDING, c.mdnid, "", 0, tbs))
        pkcs1 ==
            IF ~RSA_sign_ok(c.rsa, tbs.len) THEN Fail(w, "ERR_R_RSA_LIB")
            ELSE done(w, Signature(c.rsa, RSA_PKCS1_PADDING, c.mdnid, "", 0, tbs))
        sLen == PssEncodeSaltLen(c.rsa, c.md, c.saltlen)
        pss ==
            IF PssSignFloorCheck(c) # "" THEN Fail(w, PssSignFloorCheck(c))
            ELSE IF ~tb.ok THEN Fail(w, "")
            ELSE IF sLen < 0 THEN Fail(tb.w, "ERR_R_RSA_LIB")
            ELSE done(clean_tbuf(WriteTbuf(tb.w, i), i),
                      Signature(c.rsa, RSA_PKCS1_PSS_PADDING, c.mdnid,
                                c.mgf1_md, sLen, tbs))
        nomd ==
            IF ~RSA_private_encrypt_ok(c.rsa, tbs.len, c.pad_mode)
            THEN Fail(w, "ERR_R_RSA_LIB")
            ELSE done(w, Signature(c.rsa, c.pad_mode, NID_undef, "", 0, tbs))
    IN IF ~sig THEN Ret(w, TRUE, "", OutSize(rsasize))
       ELSE IF sigsize < rsasize THEN Fail(w, "PROV_R_INVALID_SIGNATURE_SIZE")
       ELSE IF mdsize = 0 THEN nomd
       ELSE IF tbs.len # mdsize THEN Fail(w, "PROV_R_INVALID_DIGEST_LENGTH")
       ELSE CASE c.pad_mode = RSA_X931_PADDING -> x931
              [] c.pad_mode = RSA_PKCS1_PADDING -> pkcs1
              [] c.pad_mode = RSA_PKCS1_PSS_PADDING -> pss
              [] OTHER -> Fail(w, "PROV_R_INVALID_PADDING_MODE")

(***************************************************************************)
(* Verify / Verify-Recover Transform.                                      *)
(***************************************************************************)
\* RSA_public_decrypt inverts a signature of the same key and padding
RSA_public_decrypt_ok(k, sg, padding) == sg.k = k /\ sg.k # NULL /\ sg.pad = padding

\* the bytes a raw (no digest bound) decrypt hands back: the signed value,
\* still carrying the DigestInfo header or X9.31 trailer if it was signed
\* with a digest
RecoveredRaw(sg) ==
    [sg.tbs EXCEPT !.len = @ + (IF sg.nid = NID_undef THEN 0
                                ELSE IF sg.pad = RSA_X931_PADDING THEN 1
                                ELSE 19)]

\* rout: "NULL", "tbuf" (the context's own buffer) or "buf" of size routsize
rsa_verify_recover(w, i, rout, routsize, sg) ==
    LET c == w.ctx[i]
        tb == setup_tbuf(w, i)
        x931 ==
            IF ~tb.ok THEN Fail(w, "")
            ELSE IF ~RSA_public_decrypt_ok(c.rsa, sg, RSA_X931_PADDING)
                 THEN Fail(tb.w, "ERR_R_RSA_LIB")
            ELSE IF sg.nid = NID_undef
                    \/ RSA_X931_hash_id(sg.nid) # RSA_X931_hash_id(c.mdnid)
                 THEN Fail(WriteTbuf(tb.w, i), "PROV_R_ALGORITHM_MISMATCH")
            ELSE IF sg.tbs.len # EVP_MD_get_size(c.md)
                 THEN Fail(WriteTbuf(tb.w, i), "PROV_R_INVALID_DIGEST_LENGTH")
            ELSE IF rout # "tbuf" /\ routsize < sg.tbs.len
                 THEN Fail(WriteTbuf(tb.w, i), "PROV_R_OUTPUT_BUFFER_TOO_SMALL")
            ELSE Ret(WriteTbuf(tb.w, i), TRUE, "", OutTbs(sg.tbs))
        pkcs1 ==
            IF RSA_public_decrypt_ok(c.rsa, sg, RSA_PKCS1_PADDING)
               /\ sg.nid = c.mdnid
            THEN Ret(w, TRUE, "", OutTbs(sg.tbs))
            ELSE Fail(w, "ERR_R_RSA_LIB")
        nomd ==
            IF RSA_public_decrypt_ok(c.rsa, sg, c.pad_mode)
            THEN Ret(w, TRUE, "", OutTbs(RecoveredRaw(sg)))
            ELSE Fail(w, "ERR_R_RSA_LIB")
    IN IF rout = "NULL" THEN Ret(w, TRUE, "", OutSize(RSA_size(c.rsa)))
       ELSE IF c.md = NoMd THEN nomd
       ELSE CASE c.pad_mode = RSA_X931_PADDING -> x931
              [] c.pad_mode = RSA_PKCS1_PADDING -> pkcs1
              [] OTHER -> Fail(w, "PROV_R_INVALID_PADDING_MODE")

\* a faulty verify: PSS checks the mask against the main digest, not
\* against the MGF1 digest
verify_directly_mgf1_is_md(w, i, sg, tbs) ==
    LET c == w.ctx[i]
        tb == setup_tbuf(w, i)
        \* the byte comparison against tbuf that ends the X9.31 and raw paths
        cmp(w1, got) == IF got = tbs THEN Ok(w1) ELSE Fail(w1, "")
        pkcs1 ==
            IF RSA_public_decrypt_ok(c.rsa, sg, RSA_PKCS1_PADDING)
               /\ sg.nid = c.mdnid /\ sg.tbs = tbs
            THEN Ok(w) ELSE Fail(w, "ERR_R_RSA_LIB")
        match(rec) == IF ~rec.ok THEN rec ELSE cmp(rec.w, rec.out.tbs)
        x931 == IF ~tb.ok THEN Fail(w, "")
                ELSE match(rsa_verify_recover(tb.w, i, "tbuf", 0, sg))
        pss ==
            IF tbs.len # rsa_get_md_size(c)
            THEN Fail(w, "PROV_R_INVALID_DIGEST_LENGTH")
            ELSE IF ~tb.ok THEN Fail(w, "")
            ELSE IF sg.k # c.rsa \/ sg.k = NULL THEN Fail(tb.w, "ERR_R_RSA_LIB")
            ELSE IF /\ sg.pad = RSA_PKCS1_PSS_PADDING /\ sg.nid = c.mdnid
                    /\ sg.mgf = c.md /\ sg.tbs = tbs
                    /\ PssVerifySaltOk(c.rsa, c.md, c.saltlen, sg.salt)
                 THEN Ok(WriteTbuf(tb.w, i))
                 ELSE Fail(WriteTbuf(tb.w, i), "ERR_R_RSA_LIB")
        nomd ==
            IF ~tb.ok THEN Fail(w, "")
            ELSE IF ~RSA_public_decrypt_ok(c.rsa, sg, c.pad_mode)
                 THEN Fail(tb.w, "ERR_R_RSA_LIB")
            ELSE cmp(WriteTbuf(tb.w, i), RecoveredRaw(sg))
    IN IF c.md = NoMd THEN nomd
       ELSE CASE c.pad_mode = RSA_PKCS1_PADDING -> pkcs1
              [] c.pad_mode = RSA_X931_PADDING -> x931
              [] c.pad_mode = RSA_PKCS1_PSS_PADDING -> pss
              [] OTHER -> Fail(w, "PROV_R_INVALID_PADDING_MODE")

rsa_verify_directly(w, i, sg, tbs) ==
    LET c == w.ctx[i]
        tb == setup_tbuf(w, i)
        \* the byte comparison against tbuf that ends the X9.31 and raw paths
        cmp(w1, got) == IF got = tbs THEN Ok(w1) ELSE Fail(w1, "")
        pkcs1 ==
            IF RSA_public_decrypt_ok(c.rsa, sg, RSA_PKCS1_PADDING)
               /\ sg.nid = c.mdnid /\ sg.tbs = tbs
            THEN Ok(w) ELSE Fail(w, "ERR_R_RSA_LIB")
        match(rec) == IF ~rec.ok THEN rec ELSE cmp(rec.w, rec.out.tbs)
        x931 == IF ~tb.ok THEN Fail(w, "")
                ELSE match(rsa_verify_recover(tb.w, i, "tbuf", 0, sg))
        pss ==
            IF tbs.len # rsa_get_md_size(c)
            THEN Fail(w, "PROV_R_INVALID_DIGEST_LENGTH")
            ELSE IF ~tb.ok THEN Fail(w, "")
            ELSE IF sg.k # c.rsa \/ sg.k = NULL THEN Fail(tb.w, "ERR_R_RSA_LIB")
            ELSE IF /\ sg.pad = RSA_PKCS1_PSS_PADDING /\ sg.nid = c.mdnid
                    /\ sg.mgf = c.mgf1_md /\ sg.tbs = tbs
                    /\ PssVerifySaltOk(c.rsa, c.md, c.saltlen, sg.salt)
                 THEN Ok(WriteTbuf(tb.w, i))
                 ELSE Fail(WriteTbuf(tb.w, i), "ERR_R_RSA_LIB")
        nomd ==
            IF ~tb.ok THEN Fail(w, "")
            ELSE IF ~RSA_public_decrypt_ok(c.rsa, sg, c.pad_mode)
                 THEN Fail(tb.w, "ERR_R_RSA_LIB")
            ELSE cmp(WriteTbuf(tb.w, i), RecoveredRaw(sg))
    IN IF c.md = NoMd THEN nomd
       ELSE CASE c.pad_mode = RSA_PKCS1_PADDING -> pkcs1
              [] c.pad_mode = RSA_X931_PADDING -> x931
              [] c.pad_mode = RSA_PKCS1_PSS_PADDING -> pss
              [] OTHER -> Fail(w, "PROV_R_INVALID_PADDING_MODE")

(***************************************************************************)
(* Signature Context State Machine: update, final, oneshot.                *)
(***************************************************************************)
\* a faulty update: it leaves flag_allow_oneshot as it was
update_keeps_oneshot(w, i, data) ==
    LET c == w.ctx[i]
        cell == w.mdctxs[c.mdctx]
        w1 == SetCtx(w, i, c)
    IN IF c.mdctx = NULL THEN Fail(w, "")
       ELSE IF ~c.flag_allow_update THEN Fail(w, "PROV_R_UPDATE_CALL_OUT_OF_ORDER")
       ELSE IF cell.fin THEN Fail(w1, "EVP_R_UPDATE_ERROR")
       ELSE Ok([w1 EXCEPT !.mdctxs[c.mdctx] = EVP_DigestUpdate(cell, data)])

\* a faulty update: it does not look at flag_allow_update
update_unchecked(w, i, data) ==
    LET c == w.ctx[i]
        cell == w.mdctxs[c.mdctx]
        w1 == SetCtx(w, i, [c EXCEPT !.flag_allow_oneshot = FALSE])
    IN IF c.mdctx = NULL THEN Fail(w, "")
       ELSE IF cell.fin THEN Fail(w1, "EVP_R_UPDATE_ERROR")
       ELSE Ok([w1 EXCEPT !.mdctxs[c.mdctx] = EVP_DigestUpdate(cell, data)])

\* a faulty update: it also clears flag_allow_update
update_clears_update(w, i, data) ==
    LET c == w.ctx[i]
        cell == w.mdctxs[c.mdctx]
        w1 == SetCtx(w, i, [c EXCEPT !.flag_allow_oneshot = FALSE,
                                     !.flag_allow_update = FALSE])
    IN IF c.mdctx = NULL THEN Fail(w, "")
       ELSE IF ~c.flag_allow_update THEN Fail(w, "PROV_R_UPDATE_CALL_OUT_OF_ORDER")
       ELSE IF cell.fin THEN Fail(w1, "EVP_R_UPDATE_ERROR")
       ELSE Ok([w1 EXCEPT !.mdctxs[c.mdctx] = EVP_DigestUpdate(cell, data)])

rsa_signverify_message_update(w, i, data) ==
    LET c == w.ctx[i]
        cell == w.mdctxs[c.mdctx]
        w1 == SetCtx(w, i, [c EXCEPT !.flag_allow_oneshot = FALSE])
    IN IF c.mdctx = NULL THEN Fail(w, "")
       ELSE IF ~c.flag_allow_update THEN Fail(w, "PROV_R_UPDATE_CALL_OUT_OF_ORDER")
       ELSE IF cell.fin THEN Fail(w1, "EVP_R_UPDATE_ERROR")
       ELSE Ok([w1 EXCEPT !.mdctxs[c.mdctx] = EVP_DigestUpdate(cell, data)])

\* a faulty final: it leaves flag_allow_final set
sign_final_keeps_final(w, i, sig, sigsize) ==
    LET c == w.ctx[i]
        cell == w.mdctxs[c.mdctx]
        w1 == [SetCtx(w, i, [c EXCEPT !.flag_allow_update = FALSE,
                                      !.flag_allow_oneshot = FALSE])
                 EXCEPT !.mdctxs[c.mdctx] = EVP_DigestFinal_ex(cell)]
    IN IF c.mdctx = NULL THEN Fail(w, "")
       ELSE IF ~c.flag_allow_final THEN Fail(w, "PROV_R_FINAL_CALL_OUT_OF_ORDER")
       ELSE IF ~sig THEN rsa_sign_directly(w, i, sig, sigsize, NoTbs)
       ELSE IF cell.fin THEN Fail(w, "EVP_R_FINAL_ERROR")
       ELSE rsa_sign_directly(w1, i, sig, sigsize, DigestValue(cell))

rsa_sign_message_final(w, i, sig, sigsize) ==
    LET c == w.ctx[i]
        cell == w.mdctxs[c.mdctx]
        w1 == [SetCtx(w, i, [c EXCEPT !.flag_allow_update = FALSE,
                                      !.flag_allow_oneshot = FALSE,
                                      !.flag_allow_final = FALSE])
                 EXCEPT !.mdctxs[c.mdctx] = EVP_DigestFinal_ex(cell)]
    IN IF c.mdctx = NULL THEN Fail(w, "")
       ELSE IF ~c.flag_allow_final THEN Fail(w, "PROV_R_FINAL_CALL_OUT_OF_ORDER")
       ELSE IF ~sig THEN rsa_sign_directly(w, i, sig, sigsize, NoTbs)
       ELSE IF cell.fin THEN Fail(w, "EVP_R_FINAL_ERROR")
       ELSE rsa_sign_directly(w1, i, sig, sigsize, DigestValue(cell))

\* a faulty oneshot sign: it digests the input of a size query too
sign_digests_size_query(w, i, sig, sigsize, tbs) ==
    LET c == w.ctx[i]
        final(w1) == rsa_sign_message_final(w1, i, sig, sigsize)
    IN IF ~c.flag_allow_oneshot THEN Fail(w, "PROV_R_ONESHOT_CALL_OUT_OF_ORDER")
       ELSE IF c.operation = EVP_PKEY_OP_SIGNMSG
            THEN Then(rsa_signverify_message_update(w, i, tbs.data), final)
       ELSE rsa_sign_directly(w, i, sig, sigsize, tbs)

\* a faulty oneshot sign: in a message operation it signs tbs directly
sign_message_as_primitive(w, i, sig, sigsize, tbs) ==
    LET c == w.ctx[i]
    IN IF ~c.flag_allow_oneshot THEN Fail(w, "PROV_R_ONESHOT_CALL_OUT_OF_ORDER")
       ELSE rsa_sign_directly(w, i, sig, sigsize, tbs)

rsa_sign(w, i, sig, sigsize, tbs) ==
    LET c == w.ctx[i]
        final(w1) == rsa_sign_message_final(w1, i, sig, sigsize)
    IN IF ~c.flag_allow_oneshot THEN Fail(w, "PROV_R_ONESHOT_CALL_OUT_OF_ORDER")
       ELSE IF c.operation = EVP_PKEY_OP_SIGNMSG
            \* sig NULL: the caller only wants the length; the input is not
            \* digested
            THEN IF ~sig THEN final(w)
                 ELSE Then(rsa_signverify_message_update(w, i, tbs.data), final)
       ELSE rsa_sign_directly(w, i, sig, sigsize, tbs)

rsa_verify_set_sig(w, i, sg) ==
    rsa_sigalg_set_ctx_params(w, i, [EmptyParams EXCEPT !.has_sig = TRUE,
                                                       !.signature = sg])

\* The stored signature as the final reads it.  Reading a buffer that was
\* released through another context is undefined: intact says whether
\* the bytes are still there.
StoredSig(w, i, intact) ==
    LET c == w.ctx[i]
    IN IF c.sig = NULL THEN NoSig
       ELSE IF w.sigs[c.sig].st = "alloc" \/ intact THEN w.sigs[c.sig].val
       ELSE GarbageSig

ReadsFreed(w, i) == w.ctx[i].sig # NULL /\ w.sigs[w.ctx[i].sig].st # "alloc"

rsa_verify_message_final(w, i, intact) ==
    LET c == w.ctx[i]
        cell == w.mdctxs[c.mdctx]
        w1 == [SetCtx(w, i, [c EXCEPT !.flag_allow_update = FALSE,
                                      !.flag_allow_final = FALSE,
                                      !.flag_allow_oneshot = FALSE])
                 EXCEPT !.mdctxs[c.mdctx] = EVP_DigestFinal_ex(cell),
                        !.fault = IF ReadsFreed(w, i) THEN "use_after_free" ELSE @]
    IN IF c.mdctx = NULL THEN Fail(w, "")
       ELSE IF ~c.flag_allow_final THEN Fail(w, "PROV_R_FINAL_CALL_OUT_OF_ORDER")
       ELSE IF cell.fin THEN Fail(w, "EVP_R_FINAL_ERROR")
       ELSE rsa_verify_directly(w1, i, StoredSig(w, i, intact), DigestValue(cell))

rsa_verify(w, i, sg, tbs, intact) ==
    LET c == w.ctx[i]
        update(w1) == rsa_signverify_message_update(w1, i, tbs.data)
        final(w2) == rsa_verify_message_final(w2, i, intact)
    IN IF ~c.flag_allow_oneshot THEN Fail(w, "PROV_R_ONESHOT_CALL_OUT_OF_ORDER")
       ELSE IF c.operation = EVP_PKEY_OP_VERIFYMSG
            THEN Then(Then(rsa_verify_set_sig(w, i, sg), update), final)
       ELSE rsa_verify_directly(w, i, sg, tbs)

(***************************************************************************)
(* DigestSign / DigestVerify wrappers (composable algorithm only).         *)
(***************************************************************************)
rsa_digest_sign_update(w, i, data) ==
    IF w.ctx[i].flag_sigalg THEN Fail(w, "")
    ELSE rsa_signverify_message_update(w, i, data)

rsa_digest_verify_update(w, i, data) ==
    IF w.ctx[i].flag_sigalg THEN Fail(w, "")
    ELSE rsa_signverify_message_update(w, i, data)

\* a faulty digest-sign final: it does not look at flag_sigalg
digest_sign_final_on_sigalg(w, i, sig, sigsize) ==
    LET r == rsa_sign_message_final(w, i, sig, sigsize)
    IN [r EXCEPT !.w.ctx[i].flag_allow_md = TRUE]

rsa_digest_sign_final(w, i, sig, sigsize) ==
    LET r == rsa_sign_message_final(w, i, sig, sigsize)
    IN IF w.ctx[i].flag_sigalg THEN Fail(w, "")
       ELSE [r EXCEPT !.w.ctx[i].flag_allow_md = TRUE]

rsa_digest_verify_final(w, i, sg, intact) ==
    LET final(w1) == rsa_verify_message_final(w1, i, intact)
        r == Then(rsa_verify_set_sig(w, i, sg), final)
    IN IF w.ctx[i].flag_sigalg THEN Fail(w, "")
       ELSE [r EXCEPT !.w.ctx[i].flag_allow_md = TRUE]

(***************************************************************************)
(* Teardown and duplication.                                               *)
(***************************************************************************)
rsa_freectx(w, i) ==
    LET c == w.ctx[i]
        w1 == Free(w, "mdctxs", c.mdctx)
        w2 == Free(w1, "sigs", c.sig)
        w3 == free_tbuf(w2, i)
        w4 == RSA_free(w3, c.rsa)
    IN SetCtx(w4, i, ZeroCtx)

\* a faulty dup: the copy points to the key without a reference of its own
dupctx_no_up_ref(w, src, dst, failAt) ==
    LET s == w.ctx[src]
        d0 == [s EXCEPT !.rsa = NULL, !.md = NoMd, !.mgf1_md = NoMd,
                        !.mdctx = NULL, !.tbuf = NULL]
        w0 == SetCtx(w, dst, d0)
        w1 == IF s.rsa # NULL
              THEN SetCtx(w0, dst, [d0 EXCEPT !.rsa = s.rsa])
              ELSE w0
        w2 == SetCtx(w1, dst, [w1.ctx[dst] EXCEPT !.md = s.md,
                                                  !.mgf1_md = s.mgf1_md])
        a == Malloc(w2, "mdctxs", "mdctx")
        w3 == IF s.mdctx # NULL
              THEN [SetCtx(w2, dst, [w2.ctx[dst] EXCEPT !.mdctx = a])
                      EXCEPT !.mdctxs[a] = w.mdctxs[s.mdctx]]
              ELSE w2
    IN IF failAt = "up_ref" /\ s.rsa # NULL THEN Fail(rsa_freectx(w0, dst), "")
       ELSE IF s.mdctx # NULL /\ (failAt = "mdctx" \/ a = NULL)
            THEN Fail(rsa_freectx(w2, dst), "")
       ELSE Ok(w3)

\* a faulty dup: the copy gets a digest that has taken no input
dupctx_fresh_digest(w, src, dst, failAt) ==
    LET s == w.ctx[src]
        d0 == [s EXCEPT !.rsa = NULL, !.md = NoMd, !.mgf1_md = NoMd,
                        !.mdctx = NULL, !.tbuf = NULL]
        w0 == SetCtx(w, dst, d0)
        w1 == IF s.rsa # NULL
              THEN SetCtx(RSA_up_ref(w0, s.rsa), dst, [d0 EXCEPT !.rsa = s.rsa])
              ELSE w0
        w2 == SetCtx(w1, dst, [w1.ctx[dst] EXCEPT !.md = s.md,
                                                  !.mgf1_md = s.mgf1_md])
        a == Malloc(w2, "mdctxs", "mdctx")
        w3 == IF s.mdctx # NULL
              THEN [SetCtx(w2, dst, [w2.ctx[dst] EXCEPT !.mdctx = a])
                      EXCEPT !.mdctxs[a] = [w.mdctxs[s.mdctx] EXCEPT !.data = <<>>]]
              ELSE w2
    IN IF failAt = "up_ref" /\ s.rsa # NULL THEN Fail(rsa_freectx(w0, dst), "")
       ELSE IF s.mdctx # NULL /\ (failAt = "mdctx" \/ a = NULL)
            THEN Fail(rsa_freectx(w2, dst), "")
       ELSE Ok(w3)

\* failAt: "" for a dup that goes through, or the step that fails
\* ("up_ref": RSA_up_ref, "mdctx": EVP_MD_CTX_new / EVP_MD_CTX_copy_ex)
rsa_dupctx(w, src, dst, failAt) ==
    LET s == w.ctx[src]
        d0 == [s EXCEPT !.rsa = NULL, !.md = NoMd, !.mgf1_md = NoMd,
                        !.mdctx = NULL, !.tbuf = NULL]
        w0 == SetCtx(w, dst, d0)
        w1 == IF s.rsa # NULL
              THEN SetCtx(RSA_up_ref(w0, s.rsa), dst, [d0 EXCEPT !.rsa = s.rsa])
              ELSE w0
        w2 == SetCtx(w1, dst, [w1.ctx[dst] EXCEPT !.md = s.md,
                                                  !.mgf1_md = s.mgf1_md])
        a == Malloc(w2, "mdctxs", "mdctx")
        w3 == IF s.mdctx # NULL
              THEN [SetCtx(w2, dst, [w2.ctx[dst] EXCEPT !.mdctx = a])
                      EXCEPT !.mdctxs[a] = w.mdctxs[s.mdctx]]
              ELSE w2
    IN IF failAt = "up_ref" /\ s.rsa # NULL THEN Fail(rsa_freectx(w0, dst), "")
       ELSE IF s.mdctx # NULL /\ (failAt = "mdctx" \/ a = NULL)
            THEN Fail(rsa_freectx(w2, dst), "")
       ELSE Ok(w3)

(***************************************************************************)
(* The sigalg entry points IMPL_RSA_SIGALG generates for a digest MD.      *)
(***************************************************************************)
rsa_md_sign_init(MD, w, i, vrsa, params) ==
    rsa_sigalg_signverify_init(w, i, vrsa, params, MD, EVP_PKEY_OP_SIGN,
                               RSA_PKCS1_PADDING)

rsa_md_sign_message_init(MD, w, i, vrsa, params) ==
    rsa_sigalg_signverify_init(w, i, vrsa, params, MD, EVP_PKEY_OP_SIGNMSG,
                               RSA_PKCS1_PADDING)

rsa_md_verify_init(MD, w, i, vrsa, params) ==
    rsa_sigalg_signverify_init(w, i, vrsa, params, MD, EVP_PKEY_OP_VERIFY,
                               RSA_PKCS1_PADDING)

rsa_md_verify_recover_init(MD, w, i, vrsa, params) ==
    rsa_sigalg_signverify_init(w, i, vrsa, params, MD, EVP_PKEY_OP_VERIFYRECOVER,
                               RSA_PKCS1_PADDING)

rsa_md_verify_message_init(MD, w, i, vrsa, params) ==
    rsa_sigalg_signverify_init(w, i, vrsa, params, MD, EVP_PKEY_OP_VERIFYMSG,
                               RSA_PKCS1_PADDING)

(***************************************************************************)
(* Dispatch tables.  A slot is either not a context, or a context of the   *)
(* composable algorithm (impl "RSA"), or of a sigalg (impl is the digest). *)
(***************************************************************************)
Composable == "RSA"
Sigalgs == {"SHA2-256"}
Impls == {Composable} \cup Sigalgs
NoSlot == [live |-> FALSE, impl |-> ""]

IsComposable(i) == slot[i].live /\ slot[i].impl = Composable
IsSigalg(i) == slot[i].live /\ slot[i].impl \in Sigalgs

(***************************************************************************)
(* History of a context.                                                   *)
(*   bound:   some init was given a key                                    *)
(*   init:    the last call was an init that returned 1                    *)
(*   update:  an update was accepted since the last init                   *)
(*   final:   a call finalised the running digest since the last init      *)
(*   oneshot: a primitive sign or verify was carried out since the last    *)
(*            init                                                         *)
(* "The last init" is the last init that got past the key check.           *)
(***************************************************************************)
NoTwin == [src |-> 0, dst |-> 0]

NoHist == [bound |-> FALSE, init |-> FALSE, update |-> FALSE, final |-> FALSE,
           oneshot |-> FALSE]

Finalised(w, i) == w.ctx[i].mdctx # NULL /\ w.mdctxs[w.ctx[i].mdctx].fin

DataLen(w, i) ==
    IF w.ctx[i].mdctx = NULL THEN 0 ELSE Len(w.mdctxs[w.ctx[i].mdctx].data)

HistAfter(i, kind, r) ==
    CASE kind = "init" ->
           IF r.err = "PROV_R_NO_KEY_SET" THEN [hist[i] EXCEPT !.init = FALSE]
           ELSE [NoHist EXCEPT !.bound = TRUE, !.init = r.ok]
      [] kind = "update" -> [hist[i] EXCEPT !.init = FALSE, !.update = @ \/ r.ok]
      [] OTHER ->
           [hist[i] EXCEPT
              !.init = FALSE,
              !.final = @ \/ (Finalised(r.w, i) /\ ~Finalised(World, i)),
              !.oneshot = @ \/ (kind = "transform")]

\* a call of the given kind on context i returned r: store what it left
Commit(i, kind, r) ==
    LET w == Settle(r.w)
    IN /\ DataLen(w, i) <= MaxData
       /\ ctx' = w.ctx
       /\ mdctxs' = w.mdctxs
       /\ tbufs' = w.tbufs
       /\ sigs' = w.sigs
       /\ keyref' = w.keyref
       /\ fault' = w.fault
       /\ hist' = [hist EXCEPT ![i] = HistAfter(i, kind, r)]
       /\ twin' = NoTwin
       /\ UNCHANGED slot

(***************************************************************************)
(* Actions: one per entry point of the dispatch tables.                    *)
(***************************************************************************)
\* what reading the buffered signature can give: its bytes, or, when the
\* buffer was released behind the context's back, possibly something else
Intact(i) == IF ReadsFreed(World, i) THEN BOOLEAN ELSE {TRUE}

NewCtx(i, impl) ==
    /\ ~slot[i].live
    /\ slot' = [slot EXCEPT ![i] = [live |-> TRUE, impl |-> impl]]
    /\ ctx' = [ctx EXCEPT ![i] = rsa_newctx]
    /\ hist' = [hist EXCEPT ![i] = NoHist]
    /\ twin' = NoTwin
    /\ UNCHANGED <<mdctxs, tbufs, sigs, keyref, fault>>

SignInit(i, vrsa, params) ==
    /\ IsComposable(i)
    /\ Commit(i, "init", rsa_sign_init(World, i, vrsa, params))

VerifyInit(i, vrsa, params) ==
    /\ IsComposable(i)
    /\ Commit(i, "init", rsa_verify_init(World, i, vrsa, params))

VerifyRecoverInit(i, vrsa, params) ==
    /\ IsComposable(i)
    /\ Commit(i, "init",
              rsa_verify_recover_init(World, i, vrsa, params))

DigestSignInit(i, mdname, vrsa, params) ==
    /\ IsComposable(i)
    /\ Commit(i, "init",
              rsa_digest_sign_init(World, i, mdname, vrsa, params))

DigestVerifyInit(i, mdname, vrsa, params) ==
    /\ IsComposable(i)
    /\ Commit(i, "init",
              rsa_digest_verify_init(World, i, mdname, vrsa, params))

SigalgSignInit(i, vrsa, params) ==
    /\ IsSigalg(i)
    /\ Commit(i, "init",
              rsa_md_sign_init(slot[i].impl, World, i, vrsa, params))

SigalgSignMessageInit(i, vrsa, params) ==
    /\ IsSigalg(i)
    /\ Commit(i, "init",
              rsa_md_sign_message_init(slot[i].impl, World, i, vrsa, params))

SigalgVerifyInit(i, vrsa, params) ==
    /\ IsSigalg(i)
    /\ Commit(i, "init",
              rsa_md_verify_init(slot[i].impl, World, i, vrsa, params))

SigalgVerifyRecoverInit(i, vrsa, params) ==
    /\ IsSigalg(i)
    /\ Commit(i, "init",
              rsa_md_verify_recover_init(slot[i].impl, World, i, vrsa, params))

SigalgVerifyMessageInit(i, vrsa, params) ==
    /\ IsSigalg(i)
    /\ Commit(i, "init",
              rsa_md_verify_message_init(slot[i].impl, World, i, vrsa, params))

\* sig: a destination buffer is passed; its capacity is sigsize
Sign(i, sig, sigsize, tbs) ==
    LET r == rsa_sign(World, i, sig, sigsize, tbs)
    IN /\ slot[i].live
       /\ Commit(i, IF r.ok /\ sig /\ ctx[i].operation # EVP_PKEY_OP_SIGNMSG
                 THEN "transform" ELSE "oneshot", r)

Verify(i, sg, tbs) ==
    /\ slot[i].live
    /\ \E intact \in Intact(i) :
         LET r == rsa_verify(World, i, sg, tbs, intact)
         IN Commit(i, IF r.ok /\ ctx[i].operation # EVP_PKEY_OP_VERIFYMSG
                      THEN "transform" ELSE "oneshot", r)

\* the key is read without a check: the caller has bound one
VerifyRecover(i, rout, routsize, sg) ==
    /\ slot[i].live
    /\ ctx[i].rsa # NULL
    /\ Commit(i, "recover",
              rsa_verify_recover(World, i, rout, routsize, sg))

MessageUpdate(i, data) ==
    /\ IsSigalg(i)
    /\ Commit(i, "update",
              rsa_signverify_message_update(World, i, data))

SignMessageFinal(i, sig, sigsize) ==
    /\ IsSigalg(i)
    /\ Commit(i, "final",
              rsa_sign_message_final(World, i, sig, sigsize))

VerifyMessageFinal(i) ==
    /\ IsSigalg(i)
    /\ \E intact \in Intact(i) :
         Commit(i, "final", rsa_verify_message_final(World, i, intact))

DigestSignUpdate(i, data) ==
    /\ IsComposable(i)
    /\ Commit(i, "update",
              rsa_digest_sign_update(World, i, data))

DigestSignFinal(i, sig, sigsize) ==
    /\ IsComposable(i)
    /\ Commit(i, "final",
              rsa_digest_sign_final(World, i, sig, sigsize))

DigestVerifyUpdate(i, data) ==
    /\ IsComposable(i)
    /\ Commit(i, "update",
              rsa_digest_verify_update(World, i, data))

DigestVerifyFinal(i, sg) ==
    /\ IsComposable(i)
    /\ \E intact \in Intact(i) :
         Commit(i, "final", rsa_digest_verify_final(World, i, sg, intact))

\* a pad mode parameter makes the handler read the key's type
SetCtxParams(i, p) ==
    /\ IsComposable(i)
    /\ p.pad_mode # NoName => ctx[i].rsa # NULL
    /\ Commit(i, "params", rsa_set_ctx_params(World, i, p))

SigalgSetCtxParams(i, p) ==
    /\ IsSigalg(i)
    /\ Commit(i, "params",
              rsa_sigalg_set_ctx_params(World, i, p))

FreeCtx(i) ==
    LET w == Settle(rsa_freectx(World, i))
    IN /\ slot[i].live
       /\ slot' = [slot EXCEPT ![i] = NoSlot]
       /\ ctx' = w.ctx
       /\ mdctxs' = w.mdctxs
       /\ tbufs' = w.tbufs
       /\ sigs' = w.sigs
       /\ keyref' = w.keyref
       /\ fault' = w.fault
       /\ hist' = [hist EXCEPT ![i] = NoHist]
       /\ twin' = NoTwin

DupCtx(src, dst, failAt) ==
    LET r == rsa_dupctx(World, src, dst, failAt)
        w == Settle(r.w)
    IN /\ slot[src].live
       /\ ~slot[dst].live
       /\ failAt = "up_ref" => ctx[src].rsa # NULL
       /\ failAt = "mdctx" => ctx[src].mdctx # NULL
       /\ slot' = [slot EXCEPT ![dst] = IF r.ok THEN slot[src] ELSE NoSlot]
       /\ ctx' = w.ctx
       /\ mdctxs' = w.mdctxs
       /\ tbufs' = w.tbufs
       /\ sigs' = w.sigs
       /\ keyref' = w.keyref
       /\ fault' = w.fault
       /\ hist' = [hist EXCEPT ![src] = [@ EXCEPT !.init = FALSE],
                               ![dst] = IF r.ok THEN [hist[src] EXCEPT !.init = FALSE]
                                        ELSE NoHist]
       /\ twin' = IF r.ok THEN [src |-> src, dst |-> dst] ELSE NoTwin

(***************************************************************************)
(* What callers pass.                                                      *)
(***************************************************************************)
KeyArgs == {NULL, 1, 2}
MdNameArgs == {NoName, "SHA256", "SHA1"}
ParamArgs ==
    {EmptyParams,
     [EmptyParams EXCEPT !.digest = "SHA256"],
     [EmptyParams EXCEPT !.digest = "SHA1"],
     [EmptyParams EXCEPT !.pad_mode = "pss"],
     [EmptyParams EXCEPT !.pad_mode = "none"]}
InitParamArgs == {EmptyParams, [EmptyParams EXCEPT !.pad_mode = "pss"]}
SigSizeArgs == {255, 256}
TbsArgs == {Tbs(32, "SHA2-256", <<"a">>), Tbs(20, "SHA1", <<"a">>)}
\* a PKCS#1 v1.5 signature of key 1 over the SHA2-256 digest of "a"
SigA == Signature(1, RSA_PKCS1_PADDING, 672, "", 0, Tbs(32, "SHA2-256", <<"a">>))
SigArgs == {SigA, GarbageSig}
SigParamArgs == {[EmptyParams EXCEPT !.has_sig = TRUE, !.signature = sg] : sg \in SigArgs}
RoutArgs == {"NULL", "buf"}

Init ==
    /\ slot = [i \in CtxIds |-> NoSlot]
    /\ ctx = [i \in CtxIds |-> ZeroCtx]
    /\ mdctxs = [a \in Addrs |-> FreeMdCtx]
    /\ tbufs = [a \in Addrs |-> FreeTbuf]
    /\ sigs = [a \in Addrs |-> FreeSigBuf]
    /\ keyref = [k \in Keys |-> 1]
    /\ fault = "none"
    /\ hist = [i \in CtxIds |-> NoHist]
    /\ twin = NoTwin

\* the calls a caller can make on context i
Call(i) ==
    \/ \E vrsa \in KeyArgs, p \in InitParamArgs : SignInit(i, vrsa, p)
    \/ \E vrsa \in KeyArgs, p \in InitParamArgs : VerifyInit(i, vrsa, p)
    \/ \E vrsa \in KeyArgs, p \in InitParamArgs : VerifyRecoverInit(i, vrsa, p)
    \/ \E vrsa \in KeyArgs, mdname \in MdNameArgs :
           DigestSignInit(i, mdname, vrsa, EmptyParams)
    \/ \E vrsa \in KeyArgs, mdname \in MdNameArgs :
           DigestVerifyInit(i, mdname, vrsa, EmptyParams)
    \/ \E vrsa \in KeyArgs, p \in SigParamArgs \cup {EmptyParams} :
           SigalgSignInit(i, vrsa, p)
    \/ \E vrsa \in KeyArgs, p \in SigParamArgs \cup {EmptyParams} :
           SigalgSignMessageInit(i, vrsa, p)
    \/ \E vrsa \in KeyArgs, p \in SigParamArgs \cup {EmptyParams} :
           SigalgVerifyInit(i, vrsa, p)
    \/ \E vrsa \in KeyArgs, p \in SigParamArgs \cup {EmptyParams} :
           SigalgVerifyRecoverInit(i, vrsa, p)
    \/ \E vrsa \in KeyArgs, p \in SigParamArgs \cup {EmptyParams} :
           SigalgVerifyMessageInit(i, vrsa, p)
    \/ \E sig \in BOOLEAN, sigsize \in SigSizeArgs, tbs \in TbsArgs :
           Sign(i, sig, sigsize, tbs)
    \/ \E sg \in SigArgs, tbs \in TbsArgs : Verify(i, sg, tbs)
    \/ \E rout \in RoutArgs, sg \in SigArgs : VerifyRecover(i, rout, 256, sg)
    \/ \E data \in Chunks : MessageUpdate(i, data)
    \/ \E sig \in BOOLEAN, sigsize \in SigSizeArgs : SignMessageFinal(i, sig, sigsize)
    \/ VerifyMessageFinal(i)
    \/ \E data \in Chunks : DigestSignUpdate(i, data)
    \/ \E sig \in BOOLEAN, sigsize \in SigSizeArgs : DigestSignFinal(i, sig, sigsize)
    \/ \E data \in Chunks : DigestVerifyUpdate(i, data)
    \/ \E sg \in SigArgs : DigestVerifyFinal(i, sg)
    \/ \E p \in ParamArgs : SetCtxParams(i, p)
    \/ \E p \in SigParamArgs : SigalgSetCtxParams(i, p)

\* one context, created once and driven through its whole interface
Next ==
    \/ \E impl \in Impls : NewCtx(1, impl)
    \/ Call(1)
    \/ FreeCtx(1)

Spec == Init /\ [][Next]_vars

(***************************************************************************)
(* Several contexts: one is created, the others are copies made by dupctx. *)
(* The callers verify messages with the RSA-PSS key 2: a context then owns *)
(* a running digest, a buffered signature and a temporary buffer.          *)
(***************************************************************************)
\* a PSS signature of key 2 over the SHA2-256 digest of "a"
SigP == Signature(2, RSA_PKCS1_PSS_PADDING, 672, "SHA2-256", 32,
                  Tbs(32, "SHA2-256", <<"a">>))
DupSigArgs == {SigP, GarbageSig}

DupCall(i) ==
    \/ \E mdname \in {"SHA256"} : DigestVerifyInit(i, mdname, 2, EmptyParams)
    \/ \E data \in Chunks : DigestVerifyUpdate(i, data)
    \/ \E sg \in DupSigArgs : DigestVerifyFinal(i, sg)

NextDup ==
    \/ NewCtx(1, Composable)
    \/ \E i \in CtxIds : DupCall(i)
    \/ \E src \in CtxIds, dst \in CtxIds, failAt \in {"", "up_ref", "mdctx"} :
           src # dst /\ DupCtx(src, dst, failAt)
    \/ \E i \in CtxIds : FreeCtx(i)

SpecDup == Init /\ [][NextDup]_vars

(***************************************************************************)
(* Key references: contexts are initialised and re-initialised with        *)
(* several keys, copied (the copy may fail half-way) and freed.            *)
(***************************************************************************)
KeyCallArgs == {NULL, 1, 2, 3}

KeyCall(i) ==
    \/ \E vrsa \in KeyCallArgs : SignInit(i, vrsa, EmptyParams)
    \/ \E vrsa \in KeyCallArgs : DigestSignInit(i, "SHA256", vrsa, EmptyParams)

NextKey ==
    \/ NewCtx(1, Composable)
    \/ \E i \in CtxIds : KeyCall(i)
    \/ \E src \in CtxIds, dst \in CtxIds, failAt \in {"", "up_ref", "mdctx"} :
           src # dst /\ DupCtx(src, dst, failAt)
    \/ \E i \in CtxIds : FreeCtx(i)

SpecKey == Init /\ [][NextKey]_vars

(***************************************************************************)
(* Padding, digest and salt settings: one context, initialised with plain, *)
(* RSA-PSS and restricted RSA-PSS keys and reconfigured by set_ctx_params. *)
(***************************************************************************)
CfgKeyArgs == {NULL, 1, 2, 3}
CfgMdNameArgs == {NoName, "SHA256", "MD5"}
CfgInitParamArgs == {EmptyParams, [EmptyParams EXCEPT !.pad_mode = "none"]}
\* salt lengths: below every policy, the four policies, two numbers
CfgSaltArgs == {-5, RSA_PSS_SALTLEN_AUTO_DIGEST_MAX, RSA_PSS_SALTLEN_MAX,
                RSA_PSS_SALTLEN_AUTO, RSA_PSS_SALTLEN_DIGEST, 20, 32}
CfgParamArgs ==
    {[EmptyParams EXCEPT !.digest = d] : d \in {"SHA256", "SHA1", "MD5"}}
    \cup {[EmptyParams EXCEPT !.pad_mode = pm] :
             pm \in {"pkcs1", "none", "x931", "pss", "#4"}}
    \cup {[EmptyParams EXCEPT !.has_saltlen = TRUE, !.saltlen = n] :
             n \in CfgSaltArgs}
    \cup {[EmptyParams EXCEPT !.pad_mode = "pss", !.has_saltlen = TRUE,
                              !.saltlen = n] : n \in {-5, 20}}
    \cup {[EmptyParams EXCEPT !.mgf1 = d] : d \in {"SHA256", "SHA1"}}
    \cup {[EmptyParams EXCEPT !.pad_mode = "none", !.digest = "SHA256"]}

CfgCall(i) ==
    \/ \E vrsa \in CfgKeyArgs, p \in CfgInitParamArgs : SignInit(i, vrsa, p)
    \/ \E vrsa \in CfgKeyArgs, p \in CfgInitParamArgs : VerifyInit(i, vrsa, p)
    \/ \E vrsa \in CfgKeyArgs, p \in CfgInitParamArgs :
           VerifyRecoverInit(i, vrsa, p)
    \/ \E vrsa \in CfgKeyArgs, mdname \in CfgMdNameArgs :
           DigestSignInit(i, mdname, vrsa, EmptyParams)
    \/ \E vrsa \in CfgKeyArgs : SigalgSignInit(i, vrsa, EmptyParams)
    \/ \E sig \in BOOLEAN : DigestSignFinal(i, sig, 256)
    \/ \E p \in CfgParamArgs : SetCtxParams(i, p)
    \/ \E p \in CfgParamArgs : SigalgSetCtxParams(i, p)

NextCfg ==
    \/ \E impl \in Impls : NewCtx(1, impl)
    \/ CfgCall(1)
    \/ FreeCtx(1)

SpecCfg == Init /\ [][NextCfg]_vars

(***************************************************************************)
(* What the calls of a dispatch table would return in the current state.   *)
(***************************************************************************)
OutOfOrder == {"PROV_R_UPDATE_CALL_OUT_OF_ORDER", "PROV_R_FINAL_CALL_OUT_OF_ORDER",
               "PROV_R_ONESHOT_CALL_OUT_OF_ORDER"}

\* the oneshot sign and verify calls
OneshotResults(i) ==
    {rsa_sign(World, i, sig, sigsize, tbs) :
        sig \in BOOLEAN, sigsize \in SigSizeArgs, tbs \in TbsArgs}
    \cup {rsa_verify(World, i, sg, tbs, TRUE) : sg \in SigArgs, tbs \in TbsArgs}

UpdateResults(i) ==
    IF IsSigalg(i)
    THEN {rsa_signverify_message_update(World, i, data) : data \in Chunks}
    ELSE {rsa_digest_sign_update(World, i, data) : data \in Chunks}
         \cup {rsa_digest_verify_update(World, i, data) : data \in Chunks}

FinalResults(i) ==
    IF IsSigalg(i)
    THEN {rsa_sign_message_final(World, i, sig, sigsize) :
             sig \in BOOLEAN, sigsize \in SigSizeArgs}
         \cup {rsa_verify_message_final(World, i, TRUE)}
    ELSE {rsa_digest_sign_final(World, i, sig, sigsize) :
             sig \in BOOLEAN, sigsize \in SigSizeArgs}
         \cup {rsa_digest_verify_final(World, i, sg, TRUE) : sg \in SigArgs}

\* the init calls of the table of context i, as argument records
InitArgs(i) ==
    IF IsSigalg(i)
    THEN [fn : {"rsa_md_sign_init", "rsa_md_sign_message_init", "rsa_md_verify_init",
                "rsa_md_verify_recover_init", "rsa_md_verify_message_init"},
          vrsa : KeyArgs, params : SigParamArgs \cup {EmptyParams},
          mdname : {NoName}]
    ELSE [fn : {"rsa_sign_init", "rsa_verify_init", "rsa_verify_recover_init"},
          vrsa : KeyArgs, params : InitParamArgs, mdname : {NoName}]
         \cup [fn : {"rsa_digest_sign_init", "rsa_digest_verify_init"},
               vrsa : KeyArgs, params : {EmptyParams}, mdname : MdNameArgs]

DoInit(a, w, i) ==
    CASE a.fn = "rsa_sign_init" -> rsa_sign_init(w, i, a.vrsa, a.params)
      [] a.fn = "rsa_verify_init" -> rsa_verify_init(w, i, a.vrsa, a.params)
      [] a.fn = "rsa_verify_recover_init" ->
           rsa_verify_recover_init(w, i, a.vrsa, a.params)
      [] a.fn = "rsa_digest_sign_init" ->
           rsa_digest_sign_init(w, i, a.mdname, a.vrsa, a.params)
      [] a.fn = "rsa_digest_verify_init" ->
           rsa_digest_verify_init(w, i, a.mdname, a.vrsa, a.params)
      [] a.fn = "rsa_md_sign_init" ->
           rsa_md_sign_init(slot[i].impl, w, i, a.vrsa, a.params)
      [] a.fn = "rsa_md_sign_message_init" ->
           rsa_md_sign_message_init(slot[i].impl, w, i, a.vrsa, a.params)
      [] a.fn = "rsa_md_verify_init" ->
           rsa_md_verify_init(slot[i].impl, w, i, a.vrsa, a.params)
      [] a.fn = "rsa_md_verify_recover_init" ->
           rsa_md_verify_recover_init(slot[i].impl, w, i, a.vrsa, a.params)
      [] a.fn = "rsa_md_verify_message_init" ->
           rsa_md_verify_message_init(slot[i].impl, w, i, a.vrsa, a.params)

Live == {i \in CtxIds : slot[i].live}

(***************************************************************************)
(* Lifecycle properties.                                                   *)
(***************************************************************************)
\* C1: once an update has been accepted on a context, every oneshot sign
\* and every oneshot verify on it fails with
\* PROV_R_ONESHOT_CALL_OUT_OF_ORDER until an init is called again.
C1_OneshotRejectedAfterUpdate ==
    \A i \in Live :
        hist[i].update =>
            \A r \in OneshotResults(i) :
                ~r.ok /\ r.err = "PROV_R_ONESHOT_CALL_OUT_OF_ORDER"

\* an update was accepted and nothing has consumed the digest yet
C1_Witness ==
    /\ slot[1].live /\ hist[1].update /\ ~hist[1].final
    /\ DataLen(World, 1) > 0
    /\ ctx[1].flag_allow_update /\ ctx[1].flag_allow_final

\* C2 as stated: after a final that consumed the running digest, every
\* later update and final is rejected with an out-of-order error until the
\* next init.
C2_AsStated ==
    \A i \in Live :
        hist[i].final =>
            \A r \in UpdateResults(i) \cup FinalResults(i) :
                ~r.ok /\ r.err \in OutOfOrder

\* C2 amended: after a final that consumed the running digest, every later
\* update and final returns 0 until the next init, and raises an
\* out-of-order error as long as the context still has its running digest.
C2_RejectedAfterFinal ==
    \A i \in Live :
        hist[i].final =>
            \A r \in UpdateResults(i) \cup FinalResults(i) :
                /\ ~r.ok
                /\ ctx[i].mdctx # NULL => r.err \in OutOfOrder

\* a final consumed the digest, and a later set_ctx_params dropped it
C2_Witness ==
    /\ slot[1].live /\ hist[1].final /\ ctx[1].mdctx = NULL
    /\ ~ctx[1].flag_allow_update /\ ~ctx[1].flag_allow_final

\* C3 as stated: a call rejected with an update, final or oneshot
\* out-of-order error leaves every field of the context as it was; this
\* covers the digest-sign and digest-verify wrappers and the oneshot paths.
C3_AsStated ==
    \A i \in Live :
        \A r \in OneshotResults(i) \cup UpdateResults(i) \cup FinalResults(i) :
            r.err \in OutOfOrder => r.w.ctx[i] = ctx[i]

\* C4 as stated: between two inits at most one signing or verification is
\* carried out: once a oneshot or a final has completed, every further
\* oneshot, update and final is rejected, for the primitive operations
\* (SIGN, VERIFY) as for the message-level ones.
C4_AsStated ==
    \A i \in Live :
        hist[i].final \/ hist[i].oneshot =>
            \A r \in OneshotResults(i) \cup UpdateResults(i) \cup FinalResults(i) :
                ~r.ok

\* C4 amended: once a call has consumed the running digest (a final, or a
\* message-level oneshot), every further oneshot, update and final on the
\* context returns 0 until the next init.  Primitive sign and verify calls
\* may be repeated.
C4_OneMessagePerInit ==
    \A i \in Live :
        hist[i].final =>
            \A r \in OneshotResults(i) \cup UpdateResults(i) \cup FinalResults(i) :
                ~r.ok

\* a message-level oneshot (no update call before it) consumed the digest
C4_Witness ==
    /\ slot[1].live /\ hist[1].final /\ ~hist[1].update
    /\ ctx[1].operation \in {EVP_PKEY_OP_SIGNMSG, EVP_PKEY_OP_VERIFYMSG}
    /\ ~ctx[1].flag_allow_oneshot

\* the world in which context i has just been created
FreshWorld(i) == SetCtx(Settle(rsa_freectx(World, i)), i, rsa_newctx)

Initialized(c) ==
    /\ c.operation # OP_NONE /\ c.rsa # NULL
    /\ c.flag_allow_update /\ c.flag_allow_final /\ c.flag_allow_oneshot

\* C5 as stated: init may be called in any lifecycle state: an init call
\* that succeeds on a fresh context succeeds from every reachable state and
\* leaves the context initialized.
C5_AsStated ==
    \A i \in Live :
        \A a \in InitArgs(i) :
            DoInit(a, FreshWorld(i), i).ok =>
                /\ DoInit(a, World, i).ok
                /\ Initialized(DoInit(a, World, i).w.ctx[i])

\* C6 as stated: after every successful init the four flags flag_allow_md,
\* flag_allow_update, flag_allow_final and flag_allow_oneshot are set.
C6_AsStated ==
    \A i \in Live :
        hist[i].init =>
            /\ ctx[i].flag_allow_md /\ ctx[i].flag_allow_update
            /\ ctx[i].flag_allow_final /\ ctx[i].flag_allow_oneshot

\* C6 amended: after every successful init flag_allow_update,
\* flag_allow_final and flag_allow_oneshot are set; flag_allow_md is clear
\* after a digest-sign, digest-verify or sigalg init.
C6_FlagsAfterInit ==
    \A i \in Live :
        hist[i].init =>
            /\ ctx[i].flag_allow_update /\ ctx[i].flag_allow_final
            /\ ctx[i].flag_allow_oneshot
            /\ \/ ctx[i].operation \in {EVP_PKEY_OP_SIGNMSG, EVP_PKEY_OP_VERIFYMSG}
               \/ ctx[i].flag_sigalg
               => ~ctx[i].flag_allow_md

\* a digest init has just returned 1
C6_Witness ==
    /\ slot[1].live /\ hist[1].init
    /\ ctx[1].operation = EVP_PKEY_OP_SIGNMSG
    /\ ~ctx[1].flag_allow_md /\ ctx[1].flag_allow_update

\* C7: an init fails with PROV_R_NO_KEY_SET exactly when the call passes no
\* key and no earlier init bound one; it then changes nothing.  An init
\* without a key on a context that has one keeps that key.
C7_NoKeySet ==
    \A i \in Live :
        \A a \in InitArgs(i) :
            /\ DoInit(a, World, i).err = "PROV_R_NO_KEY_SET"
                   <=> (a.vrsa = NULL /\ ~hist[i].bound)
            /\ DoInit(a, World, i).err = "PROV_R_NO_KEY_SET"
                   => ~DoInit(a, World, i).ok /\ DoInit(a, World, i).w = World
            /\ a.vrsa = NULL /\ hist[i].bound
                   => /\ ctx[i].rsa # NULL
                      /\ DoInit(a, World, i).w.ctx[i].rsa = ctx[i].rsa
                      /\ DoInit(a, World, i).w.keyref = keyref

\* a context whose key was bound by an earlier init, on which an init
\* without a key goes through
C7_Witness ==
    /\ slot[1].live /\ hist[1].bound /\ ctx[1].rsa = 1 /\ keyref[1] = 2
    /\ \E a \in InitArgs(1) : a.vrsa = NULL /\ DoInit(a, World, 1).ok

\* what the sign calls that produce a signature would return in world w
SignOutcomes(w, i) ==
    {<<sigsize, tbs, rsa_sign(w, i, TRUE, sigsize, tbs).ok,
       rsa_sign(w, i, TRUE, sigsize, tbs).err,
       rsa_sign(w, i, TRUE, sigsize, tbs).out>> :
        sigsize \in SigSizeArgs, tbs \in TbsArgs}
    \cup {<<sigsize, rsa_sign_message_final(w, i, TRUE, sigsize).ok,
            rsa_sign_message_final(w, i, TRUE, sigsize).err,
            rsa_sign_message_final(w, i, TRUE, sigsize).out>> :
        sigsize \in SigSizeArgs}

\* the size queries: sign and sign-message final without a destination
SizeQueryResults(i) ==
    {rsa_sign(World, i, FALSE, sigsize, tbs) :
        sigsize \in SigSizeArgs, tbs \in TbsArgs}
    \cup IF IsSigalg(i)
         THEN {rsa_sign_message_final(World, i, FALSE, sigsize) :
                  sigsize \in SigSizeArgs}
         ELSE {rsa_digest_sign_final(World, i, FALSE, sigsize) :
                  sigsize \in SigSizeArgs}

\* C8: a size query (sign, sign-message final or message oneshot sign
\* without a destination) returns the byte size of the modulus and leaves
\* the running digest and flag_allow_update, flag_allow_final and
\* flag_allow_oneshot as they were, so that the sign calls that follow
\* return what they would have returned without it.
C8_SizeQuery ==
    \A i \in Live :
        \A r \in SizeQueryResults(i) :
            r.ok =>
                /\ r.out.size = RSA_size(ctx[i].rsa)
                /\ r.w.mdctxs = mdctxs
                /\ r.w.ctx[i].mdctx = ctx[i].mdctx
                /\ r.w.ctx[i].flag_allow_update = ctx[i].flag_allow_update
                /\ r.w.ctx[i].flag_allow_final = ctx[i].flag_allow_final
                /\ r.w.ctx[i].flag_allow_oneshot = ctx[i].flag_allow_oneshot
                /\ SignOutcomes(r.w, i) = SignOutcomes(World, i)

\* input has been digested and the size query of the final goes through
C8_Witness ==
    /\ IsSigalg(1) /\ hist[1].update /\ DataLen(World, 1) > 0
    /\ ctx[1].operation = EVP_PKEY_OP_SIGNMSG
    /\ rsa_sign_message_final(World, 1, FALSE, 256).ok
    /\ rsa_sign_message_final(World, 1, TRUE, 256).ok

(***************************************************************************)
(* Duplication properties (SpecDup).                                       *)
(***************************************************************************)
\* the buffers of heap h the live contexts reach through pointer field f
\* are allocated, and no two contexts reach the same one
Disjoint(h, f) ==
    \A i \in Live :
        ctx[i][f] # NULL =>
            /\ World[h][ctx[i][f]].st = "alloc"
            /\ \A j \in Live \ {i} : ctx[j][f] # ctx[i][f]

\* C9 as stated: the original and the copy own disjoint running digests,
\* temporary buffers and buffered signatures: no call on one context
\* releases or changes a buffer the other still points to, and no buffer
\* is released twice.
C9_AsStated ==
    /\ fault = "none"
    /\ Disjoint("mdctxs", "mdctx")
    /\ Disjoint("tbufs", "tbuf")
    /\ Disjoint("sigs", "sig")

\* the calls made on a context after a dup, as argument records
DupCallArgs ==
    [f : {"rsa_digest_verify_update", "rsa_digest_sign_update"}, data : Chunks,
     sg : {NoSig}, tbs : {NoTbs}, p : {EmptyParams}]
    \cup [f : {"rsa_digest_verify_final"}, data : {<<>>}, sg : DupSigArgs,
          tbs : {NoTbs}, p : {EmptyParams}]
    \cup [f : {"rsa_digest_sign_final"}, data : {<<>>}, sg : {NoSig},
          tbs : {NoTbs}, p : {EmptyParams}]
    \cup [f : {"rsa_verify"}, data : {<<>>}, sg : DupSigArgs,
          tbs : {Tbs(32, "SHA2-256", <<"a">>)}, p : {EmptyParams}]
    \cup [f : {"rsa_set_ctx_params"}, data : {<<>>}, sg : {NoSig}, tbs : {NoTbs},
          p : {[EmptyParams EXCEPT !.digest = "SHA1"],
               [EmptyParams EXCEPT !.pad_mode = "none"]}]

DupApply(a, w, i, intact) ==
    CASE a.f = "rsa_digest_verify_update" -> rsa_digest_verify_update(w, i, a.data)
      [] a.f = "rsa_digest_sign_update" -> rsa_digest_sign_update(w, i, a.data)
      [] a.f = "rsa_digest_verify_final" -> rsa_digest_verify_final(w, i, a.sg, intact)
      [] a.f = "rsa_digest_sign_final" -> rsa_digest_sign_final(w, i, TRUE, 256)
      [] a.f = "rsa_verify" -> rsa_verify(w, i, a.sg, a.tbs, intact)
      [] a.f = "rsa_set_ctx_params" -> rsa_set_ctx_params(w, i, a.p)

\* longest sequence of calls compared after a dup
DupSeqLen == 2
DupSeqs == UNION {[1..n -> DupCallArgs] : n \in 0..DupSeqLen}

\* what the calls of seq, made in this order on context i, return
RECURSIVE Outcomes(_, _, _, _)
Outcomes(seq, w, i, intact) ==
    IF seq = <<>> THEN <<>>
    ELSE LET r == DupApply(Head(seq), w, i, intact)
         IN <<[ok |-> r.ok, err |-> r.err, out |-> r.out]>>
            \o Outcomes(Tail(seq), Settle(r.w), i, intact)

\* the fields dup copies by value
Settings(c) == [c EXCEPT !.mdctx = NULL, !.tbuf = NULL, !.sig = NULL]

\* the input the running digest of context i has taken so far
DigestState(w, i) ==
    IF w.ctx[i].mdctx = NULL THEN FreeMdCtx ELSE w.mdctxs[w.ctx[i].mdctx]

Pointing(k) == {i \in CtxIds : ctx[i].rsa = k}

\* C11: the references contexts hold on a key (all references but the
\* caller's own) are as many as the live contexts whose key field points
\* to it; no key is released while a live context points to it; when no
\* context is live no context holds a reference.
C11_KeyRefsBalanced ==
    /\ \A k \in Keys :
           /\ keyref[k] - 1 = Cardinality(Pointing(k))
           /\ Pointing(k) \subseteq Live
           /\ Pointing(k) # {} => keyref[k] > 0
    /\ Live = {} => \A k \in Keys : keyref[k] = 1

\* a context and its copy, one of them re-initialised with another key
C11_Witness ==
    /\ Live = {1, 2}
    /\ ctx[1].rsa # NULL /\ ctx[2].rsa # NULL /\ ctx[1].rsa # ctx[2].rsa
    /\ keyref[ctx[1].rsa] = 2 /\ keyref[ctx[2].rsa] = 2

(***************************************************************************)
(* The temporary buffer.                                                   *)
(***************************************************************************)
\* C12 as stated: when a call returns, the temporary buffer of the context
\* holds nothing a transform wrote into it: it has been zeroed on the
\* success path and on every error path.
C12_AsStated ==
    \A i \in Live :
        ctx[i].tbuf # NULL => ~tbufs[ctx[i].tbuf].dirty

(***************************************************************************)
(* Padding, digest and salt settings (SpecCfg).                            *)
(***************************************************************************)
\* set_ctx_params calls that name a digest and ask for no padding, or name
\* a digest while the pad mode is RSA_NO_PADDING
NoneWithDigest(i) ==
    {p \in CfgParamArgs :
        /\ p.digest # NoName
        /\ \/ p.pad_mode = "none"
           \/ p.pad_mode = NoName /\ ctx[i].pad_mode = RSA_NO_PADDING}

\* C13 as stated: whatever init and set_ctx_params calls were made, and
\* whether they returned 1 or 0, a context whose pad mode is
\* RSA_NO_PADDING has no digest bound, and a call that combines no padding
\* with a digest fails with PROV_R_INVALID_PADDING_MODE.
C13_AsStated ==
    \A i \in Live :
        /\ ctx[i].pad_mode = RSA_NO_PADDING => ctx[i].md = NoMd
        /\ IsComposable(i) /\ ctx[i].rsa = 1 =>
               \A p \in NoneWithDigest(i) :
                   /\ ~rsa_set_ctx_params(World, i, p).ok
                   /\ rsa_set_ctx_params(World, i, p).err
                          = "PROV_R_INVALID_PADDING_MODE"

\* C14 as stated: whatever init and set_ctx_params calls were made, and
\* whether they returned 1 or 0, a context whose pad mode is
\* RSA_X931_PADDING has a digest bound whose X9.31 hash identifier is
\* defined.
C14_AsStated ==
    \A i \in Live :
        ctx[i].pad_mode = RSA_X931_PADDING =>
            /\ ctx[i].md # NoMd
            /\ RSA_X931_hash_id(ctx[i].mdnid) # -1

\* key k carries PSS restrictions
RestrictedKey(k) ==
    /\ k # NULL
    /\ RSA_test_flags(k) = RSA_FLAG_TYPE_RSASSAPSS
    /\ ~ossl_rsa_pss_params_30_is_unrestricted(k)

\* the digest, the MGF1 digest and the salt floor of context c are the ones
\* embedded in its key
MatchesKey(c) ==
    /\ c.md = ossl_rsa_oaeppss_nid2name(ossl_rsa_pss_params_30_hashalg(c.rsa))
    /\ c.mgf1_md
          = ossl_rsa_oaeppss_nid2name(ossl_rsa_pss_params_30_maskgenhashalg(c.rsa))
    /\ c.min_saltlen = ossl_rsa_pss_params_30_saltlen(c.rsa)

\* C15 as stated: when an init with a PSS-restricted key has just returned
\* 1, the bound digest and MGF1 digest are the key's embedded hash and MGF1
\* hash and min_saltlen is the key's salt floor, and this is still so after
\* a set_ctx_params call, whatever the context was used for before.
C15_AsStated ==
    \A i \in Live :
        hist[i].init /\ RestrictedKey(ctx[i].rsa) =>
            /\ MatchesKey(ctx[i])
            /\ \A p \in CfgParamArgs :
                   MatchesKey(rsa_set_ctx_params(World, i, p).w.ctx[i])

\* context i holds a PSS-restricted key and the restrictions are in force
\* (min_saltlen # -1)
UnderRestrictions(i) ==
    /\ IsComposable(i)
    /\ RestrictedKey(ctx[i].rsa)
    /\ rsa_pss_restricted(ctx[i])
    /\ ctx[i].pad_mode = RSA_PKCS1_PSS_PADDING

\* names of signing digests that are not the digest md
OtherDigestNames(md) ==
    {d \in {"SHA256", "SHA1", "MD5"} : EVP_MD_fetch(d) # md}

\* C16 as stated: on a context under the restrictions of its RSA-PSS key,
\* rsa_set_ctx_params naming a digest other than the key's embedded hash
\* returns 0 with PROV_R_DIGEST_NOT_ALLOWED and leaves the bound digest as
\* it was; naming an MGF1 digest other than the key's embedded MGF1 hash
\* returns 0 as well and leaves the MGF1 digest as it was.
C16_AsStated ==
    \A i \in Live :
        UnderRestrictions(i) =>
            LET k == ctx[i].rsa
                md == ossl_rsa_oaeppss_nid2name(ossl_rsa_pss_params_30_hashalg(k))
                mgf1 == ossl_rsa_oaeppss_nid2name(
                            ossl_rsa_pss_params_30_maskgenhashalg(k))
                setmd(d) == rsa_set_ctx_params(World, i,
                                [EmptyParams EXCEPT !.digest = d])
                setmgf1(d) == rsa_set_ctx_params(World, i,
                                  [EmptyParams EXCEPT !.mgf1 = d])
                rejected(r) == ~r.ok /\ r.err = "PROV_R_DIGEST_NOT_ALLOWED"
                                /\ r.w.ctx[i].md = ctx[i].md
                                /\ r.w.ctx[i].mdnid = ctx[i].mdnid
                                /\ r.w.ctx[i].mgf1_md = ctx[i].mgf1_md
            IN /\ \A d \in OtherDigestNames(md) : rejected(setmd(d))
               /\ \A d \in OtherDigestNames(mgf1) : rejected(setmgf1(d))

\* the set_ctx_params function of the table that context i was made by
TableSetCtxParams(i, p) ==
    IF IsSigalg(i) THEN rsa_sigalg_set_ctx_params(World, i, p)
    ELSE rsa_set_ctx_params(World, i, p)

\* context i has a digest bound and may not change it
DigestLocked(i) ==
    /\ slot[i].live /\ hist[i].bound
    /\ ctx[i].md # NoMd /\ ~ctx[i].flag_allow_md

PadRequests(word) == {p \in CfgParamArgs : p.pad_mode = word}

\* C18: rsa_set_ctx_params asking for OAEP padding always returns 0, and
\* asking for PSS padding returns 0 unless the operation is one of SIGN,
\* SIGNMSG, VERIFY and VERIFYMSG; in both cases pad_mode and saltlen are
\* what they were before the call.
C18_PadModeRejected ==
    \A i \in Live :
        IsComposable(i) =>
            LET set(p) == rsa_set_ctx_params(World, i, p)
                rejected(r) == /\ ~r.ok
                               /\ r.w.ctx[i].pad_mode = ctx[i].pad_mode
                               /\ r.w.ctx[i].saltlen = ctx[i].saltlen
            IN /\ \A p \in PadRequests("#4") : rejected(set(p))
               /\ ctx[i].operation \notin {EVP_PKEY_OP_SIGN, EVP_PKEY_OP_SIGNMSG,
                                           EVP_PKEY_OP_VERIFY, EVP_PKEY_OP_VERIFYMSG}
                      => \A p \in PadRequests("pss") : rejected(set(p))

\* a verify-recover init with a plain RSA key has set PKCS#1 v1.5 padding,
\* and a request for PSS with another salt length is among the inputs
C18_Witness ==
    /\ IsComposable(1) /\ hist[1].bound
    /\ ctx[1].operation = EVP_PKEY_OP_VERIFYRECOVER
    /\ ctx[1].rsa = 1 /\ ctx[1].pad_mode = RSA_PKCS1_PADDING
    /\ \E p \in PadRequests("pss") : p.has_saltlen /\ p.saltlen # ctx[1].saltlen

\* set_ctx_params calls that carry a salt length
SaltRequests == {p \in CfgParamArgs : p.has_saltlen}

\* the pad mode a call works with: the one it names, else the context's
EffectivePadMode(i, p) ==
    IF p.pad_mode # NoName THEN PadModeOf(p.pad_mode, ctx[i].pad_mode)
    ELSE ctx[i].pad_mode

\* C19 as stated: rsa_set_ctx_params with a salt length returns 1 only when
\* the effective pad mode is PSS, otherwise it returns 0 with saltlen as it
\* was; a salt length below RSA_PSS_SALTLEN_AUTO_DIGEST_MAX makes it
\* return 0 with PROV_R_INVALID_SALT_LENGTH.
C19_AsStated ==
    \A i \in Live :
        IsComposable(i) =>
            \A p \in SaltRequests :
                LET r == rsa_set_ctx_params(World, i, p)
                IN /\ EffectivePadMode(i, p) # RSA_PKCS1_PSS_PADDING
                      => ~r.ok /\ r.w.ctx[i].saltlen = ctx[i].saltlen
                   /\ p.saltlen < RSA_PSS_SALTLEN_AUTO_DIGEST_MAX
                      => ~r.ok /\ r.err = "PROV_R_INVALID_SALT_LENGTH"

\* C19 amended: rsa_set_ctx_params with a salt length returns 1 only when
\* the effective pad mode is PSS, otherwise it returns 0 with saltlen as it
\* was, the error being PROV_R_NOT_SUPPORTED when the pad mode request, if
\* any, was accepted; a salt length below RSA_PSS_SALTLEN_AUTO_DIGEST_MAX
\* always makes it return 0 with saltlen as it was, with
\* PROV_R_INVALID_SALT_LENGTH when a pad mode of PSS got as far as the
\* salt length check.
C19_SaltLenNeedsPss ==
    \A i \in Live :
        IsComposable(i) =>
            \A p \in SaltRequests :
                LET r == rsa_set_ctx_params(World, i, p)
                    pad_mode == EffectivePadMode(i, p)
                    padOk == p.pad_mode = NoName
                                \/ PadModeSwitch(ctx[i], pad_mode) = ""
                IN /\ pad_mode # RSA_PKCS1_PSS_PADDING
                      => /\ ~r.ok
                         /\ r.w.ctx[i].saltlen = ctx[i].saltlen
                         /\ padOk => r.err = "PROV_R_NOT_SUPPORTED"
                   /\ p.saltlen < RSA_PSS_SALTLEN_AUTO_DIGEST_MAX
                      => /\ ~r.ok
                         /\ r.w.ctx[i].saltlen = ctx[i].saltlen
                         /\ pad_mode = RSA_PKCS1_PSS_PADDING /\ padOk
                                => r.err = "PROV_R_INVALID_SALT_LENGTH"

\* a sign context with PKCS#1 v1.5 padding on which a salt length of 20
\* is refused, although the same request together with pad mode PSS is
\* taken
C19_Witness ==
    /\ IsComposable(1) /\ hist[1].bound
    /\ ctx[1].operation = EVP_PKEY_OP_SIGN /\ ctx[1].rsa = 1
    /\ ctx[1].pad_mode = RSA_PKCS1_PADDING
    /\ ~rsa_set_ctx_params(World, 1,
           [EmptyParams EXCEPT !.has_saltlen = TRUE, !.saltlen = 20]).ok
    /\ rsa_set_ctx_params(World, 1,
           [EmptyParams EXCEPT !.pad_mode = "pss", !.has_saltlen = TRUE,
                               !.saltlen = 20]).ok

(***************************************************************************)
(* Sign, then verify.                                                      *)
(***************************************************************************)
\* values to sign: digests of the three sizes, and caller-supplied bytes of
\* the modulus size and shorter
RoundTripTbs ==
    {Tbs(32, "SHA2-256", <<"a">>), Tbs(20, "SHA1", <<"a">>),
     Tbs(16, "MD5", <<"a">>), Tbs(256, "raw", <<"a">>), Tbs(10, "raw", <<"a">>)}

\* context i has a key and rsa_sign_directly makes a signature of tbs
Signs(i, tbs) ==
    /\ slot[i].live /\ ctx[i].rsa # NULL
    /\ rsa_sign_directly(World, i, TRUE, RSA_size(ctx[i].rsa), tbs).ok

\* C20: whenever rsa_sign_directly returns a signature of a value m,
\* rsa_verify_directly on the same context accepts that signature for m,
\* whatever key, digest, pad mode and PSS salt length the context has.
C20_VerifyAcceptsSign ==
    \A i \in Live : \A tbs \in RoundTripTbs :
        Signs(i, tbs) =>
            LET verify(r) == rsa_verify_directly(r.w, i, r.out.sig, tbs)
            IN verify(rsa_sign_directly(World, i, TRUE,
                                        RSA_size(ctx[i].rsa), tbs)).ok

\* a context of the restricted RSA-PSS key, whose MGF1 digest is not its
\* digest, signs a SHA2-256 value with a salt length of 32
C20_Witness ==
    /\ ctx[1].rsa = 3 /\ ctx[1].pad_mode = RSA_PKCS1_PSS_PADDING
    /\ ctx[1].md = "SHA2-256" /\ ctx[1].mgf1_md = "SHA1"
    /\ ctx[1].saltlen = 32
    /\ Signs(1, Tbs(32, "SHA2-256", <<"a">>))

(***************************************************************************)
(* Sigalg contexts.                                                        *)
(***************************************************************************)
\* what the DigestSign / DigestVerify update and final functions would
\* return on context i
DigestCallResults(i) ==
    {rsa_digest_sign_update(World, i, data) : data \in Chunks}
    \cup {rsa_digest_verify_update(World, i, data) : data \in Chunks}
    \cup {rsa_digest_sign_final(World, i, sig, sigsize) :
             sig \in BOOLEAN, sigsize \in SigSizeArgs}
    \cup {rsa_digest_verify_final(World, i, sg, intact) :
             sg \in SigArgs, intact \in Intact(i)}

\* C21: on a context with flag_sigalg set, rsa_digest_sign_update,
\* rsa_digest_sign_final, rsa_digest_verify_update and
\* rsa_digest_verify_final return 0 and leave every field of the context,
\* and everything it points to, as it was.
C21_SigalgNoDigestCalls ==
    \A i \in Live :
        ctx[i].flag_sigalg =>
            \A r \in DigestCallResults(i) : ~r.ok /\ r.w = World

\* a sigalg message-sign is under way with data digested
C21_Witness ==
    /\ IsSigalg(1) /\ ctx[1].flag_sigalg
    /\ ctx[1].operation = EVP_PKEY_OP_SIGNMSG
    /\ ctx[1].mdctx # NULL /\ DataLen(World, 1) > 0
    /\ ctx[1].flag_allow_final /\ ~ctx[1].flag_allow_md

\* the init calls of a sigalg table, with every parameter set of the model
SigalgInitArgs ==
    [fn : {"rsa_md_sign_init", "rsa_md_sign_message_init", "rsa_md_verify_init",
           "rsa_md_verify_recover_init", "rsa_md_verify_message_init"},
     vrsa : KeyArgs,
     params : SigParamArgs \cup CfgParamArgs \cup {EmptyParams},
     mdname : {NoName}]

\* digest, MGF1 digest, pad mode and salt length of a context
DigestAndPadding(c) == <<c.md, c.mgf1_md, c.pad_mode, c.saltlen>>

\* C22: a sigalg init that returns 1 leaves pad mode RSA_PKCS1_PADDING and
\* the digest of its table, whatever parameters it was given;
\* rsa_sigalg_set_ctx_params never changes digest, MGF1 digest, pad mode or
\* salt length, in any state; and a sigalg init with an RSA-PSS key
\* returns 0.
C22_SigalgFixed ==
    \A i \in Live :
        IsSigalg(i) =>
            /\ hist[i].init =>
                   /\ ctx[i].pad_mode = RSA_PKCS1_PADDING
                   /\ ctx[i].md = EVP_MD_fetch(slot[i].impl)
                   /\ ctx[i].flag_sigalg
            /\ \A p \in SigParamArgs \cup CfgParamArgs :
                   DigestAndPadding(rsa_sigalg_set_ctx_params(World, i, p).w.ctx[i])
                       = DigestAndPadding(ctx[i])
            /\ \A a \in SigalgInitArgs :
                   LET k == IF a.vrsa # NULL THEN a.vrsa ELSE ctx[i].rsa
                       r == DoInit(a, World, i)
                       plain == DoInit([a EXCEPT !.params = EmptyParams], World, i)
                   IN /\ k # NULL /\ RSA_test_flags(k) = RSA_FLAG_TYPE_RSASSAPSS
                         => ~r.ok
                      /\ r.ok =>
                           /\ r.w.ctx[i].pad_mode = RSA_PKCS1_PADDING
                           /\ r.w.ctx[i].md = EVP_MD_fetch(slot[i].impl)
                           /\ plain.ok
                           /\ DigestAndPadding(r.w.ctx[i])
                                  = DigestAndPadding(plain.w.ctx[i])

\* a sigalg verify-message init with the plain RSA key has just returned 1
C22_Witness ==
    /\ IsSigalg(1) /\ hist[1].init /\ ctx[1].flag_sigalg
    /\ ctx[1].operation = EVP_PKEY_OP_VERIFYMSG
    /\ ctx[1].rsa = 1 /\ ctx[1].md = "SHA2-256"

(***************************************************************************)
(* Signing into a destination that is too small.                           *)
(***************************************************************************)
\* capacities below the modulus size of the key of context i
SmallSizes(i) == {n \in SigSizeArgs : n < RSA_size(ctx[i].rsa)}

\* the running digest of context i can take input / can be finalised
CanUpdate(i) ==
    /\ ctx[i].mdctx # NULL /\ ctx[i].flag_allow_update
    /\ ~mdctxs[ctx[i].mdctx].fin
CanFinal(i) ==
    /\ ctx[i].mdctx # NULL /\ ctx[i].flag_allow_final
    /\ ~mdctxs[ctx[i].mdctx].fin

\* the sign calls with a destination of capacity n, each with whether the
\* call is in order, i.e. gets as far as the transform
SmallSignCalls(i, n) ==
    {[r |-> rsa_sign(World, i, TRUE, n, tbs),
      inorder |-> /\ ctx[i].flag_allow_oneshot
                  /\ ctx[i].operation = EVP_PKEY_OP_SIGNMSG
                        => CanUpdate(i) /\ CanFinal(i)] : tbs \in TbsArgs}
    \cup {[r |-> rsa_sign_message_final(World, i, TRUE, n),
           inorder |-> CanFinal(i)]}
    \cup {[r |-> rsa_digest_sign_final(World, i, TRUE, n),
           inorder |-> CanFinal(i) /\ ~ctx[i].flag_sigalg]}

\* C23: rsa_sign, rsa_sign_message_final and rsa_digest_sign_final with a
\* destination whose capacity is below the modulus size return 0 and hand
\* out no signature; when the call is in order the error is
\* PROV_R_INVALID_SIGNATURE_SIZE.
C23_SmallDestination ==
    \A i \in Live :
        ctx[i].rsa # NULL =>
            \A n \in SmallSizes(i) : \A call \in SmallSignCalls(i, n) :
                /\ ~call.r.ok
                /\ call.r.out.sig = NoSig
                /\ call.inorder => call.r.err = "PROV_R_INVALID_SIGNATURE_SIZE"

\* a digest-sign with data digested and its final still to come, and a
\* capacity of 255 for a modulus of 256 bytes
C23_Witness ==
    /\ IsComposable(1) /\ ctx[1].rsa = 1
    /\ ctx[1].operation = EVP_PKEY_OP_SIGNMSG
    /\ CanFinal(1) /\ DataLen(World, 1) > 0
    /\ 255 \in SmallSizes(1)

(***************************************************************************)
(* What an init without parameters leaves in the padding fields.           *)
(***************************************************************************)
\* the init calls of the table of context i with no parameters
PlainInitArgs(i) ==
    IF IsSigalg(i)
    THEN [fn : {"rsa_md_sign_init", "rsa_md_sign_message_init", "rsa_md_verify_init",
                "rsa_md_verify_recover_init", "rsa_md_verify_message_init"},
          vrsa : CfgKeyArgs, params : {EmptyParams}, mdname : {NoName}]
    ELSE [fn : {"rsa_sign_init", "rsa_verify_init", "rsa_verify_recover_init"},
          vrsa : CfgKeyArgs, params : {EmptyParams}, mdname : {NoName}]
         \cup [fn : {"rsa_digest_sign_init", "rsa_digest_verify_init"},
               vrsa : CfgKeyArgs, params : {EmptyParams}, mdname : CfgMdNameArgs]

\* the key the context has after the init call a
KeyAfter(i, a) == IF a.vrsa # NULL THEN a.vrsa ELSE ctx[i].rsa

\* C24: a successful init with no parameters leaves saltlen =
\* RSA_PSS_SALTLEN_AUTO_DIGEST_MAX and min_saltlen = -1 when the key has no
\* PSS restrictions and both equal to the key's salt floor when it has;
\* pad_mode is RSA_PKCS1_PADDING for an RSA key and RSA_PKCS1_PSS_PADDING
\* for an RSA-PSS key; whatever the three fields held before.
C24_InitResetsPadding ==
    \A i \in Live : \A a \in PlainInitArgs(i) :
        LET r == DoInit(a, World, i)
            k == KeyAfter(i, a)
            c == r.w.ctx[i]
        IN r.ok =>
            /\ c.rsa = k
            /\ ~RestrictedKey(k) =>
                   /\ c.saltlen = RSA_PSS_SALTLEN_AUTO_DIGEST_MAX
                   /\ c.min_saltlen = -1
            /\ RestrictedKey(k) =>
                   /\ c.saltlen = ossl_rsa_pss_params_30_saltlen(k)
                   /\ c.min_saltlen = ossl_rsa_pss_params_30_saltlen(k)
            /\ c.pad_mode = IF RSA_test_flags(k) = RSA_FLAG_TYPE_RSA
                            THEN RSA_PKCS1_PADDING
                            ELSE RSA_PKCS1_PSS_PADDING

\* a context left with PSS padding and the salt floor of a restricted key,
\* on which an init with an RSA key and no parameters succeeds
C24_Witness ==
    /\ IsComposable(1)
    /\ ctx[1].pad_mode = RSA_PKCS1_PSS_PADDING
    /\ ctx[1].min_saltlen = 24 /\ ctx[1].saltlen = 24
    /\ rsa_sign_init(World, 1, 1, EmptyParams).ok
    /\ rsa_sign_init(World, 1, 3, EmptyParams).ok
    /\ rsa_verify_init(World, 1, 2, EmptyParams).ok

(***************************************************************************)
(* Oneshot calls against update followed by final.                         *)
(***************************************************************************)
MessageOps == {EVP_PKEY_OP_SIGNMSG, EVP_PKEY_OP_VERIFYMSG}

\* context i is in a message operation and its last call was a successful init
InitializedMsg(i) == hist[i].init /\ ctx[i].operation \in MessageOps

\* one update with the data of tbs, then the final
SignInTwo(w, i, sig, sigsize, tbs) ==
    LET final(w1) == rsa_sign_message_final(w1, i, sig, sigsize)
    IN Then(rsa_signverify_message_update(w, i, tbs.data), final)
VerifyInTwo(w, i, sg, tbs, intact) ==
    LET update(w1) == rsa_signverify_message_update(w1, i, tbs.data)
        final(w2) == rsa_verify_message_final(w2, i, intact)
    IN Then(Then(rsa_verify_set_sig(w, i, sg), update), final)

\* the three flags are cleared and a further oneshot is out of order
Consumed(w, i) ==
    /\ ~w.ctx[i].flag_allow_update
    /\ ~w.ctx[i].flag_allow_final
    /\ ~w.ctx[i].flag_allow_oneshot
    /\ \A tbs \in TbsArgs :
        /\ \A sig \in BOOLEAN, n \in SigSizeArgs :
              rsa_sign(w, i, sig, n, tbs).err = "PROV_R_ONESHOT_CALL_OUT_OF_ORDER"
        /\ \A sg \in SigArgs :
              rsa_verify(w, i, sg, tbs, TRUE).err = "PROV_R_ONESHOT_CALL_OUT_OF_ORDER"

\* the oneshot calls of a message operation with their two-call counterparts;
\* dest tells whether a sign call has a destination
MsgOneshotPairs(i) ==
    IF ctx[i].operation = EVP_PKEY_OP_SIGNMSG
    THEN {[one |-> rsa_sign(World, i, sig, n, tbs),
           two |-> SignInTwo(World, i, sig, n, tbs), dest |-> sig] :
             sig \in BOOLEAN, n \in SigSizeArgs, tbs \in TbsArgs}
    ELSE {[one |-> rsa_verify(World, i, sg, tbs, TRUE),
           two |-> VerifyInTwo(World, i, sg, tbs, TRUE), dest |-> TRUE] :
             sg \in SigArgs, tbs \in TbsArgs}

\* the oneshot calls of a primitive operation
PrimitiveOneshots(i) ==
    {rsa_sign(World, i, sig, n, tbs) :
        sig \in BOOLEAN, n \in SigSizeArgs, tbs \in TbsArgs}
    \cup {rsa_verify(World, i, sg, tbs, TRUE) : sg \in SigArgs, tbs \in TbsArgs}

\* C25 as the specification states it: every oneshot call of a message
\* operation on an initialised context equals update then final and leaves
\* the three flags cleared; a primitive oneshot leaves the running digests.
C25_AsStated ==
    \A i \in Live :
        /\ InitializedMsg(i) =>
              \A p \in MsgOneshotPairs(i) : p.one = p.two /\ Consumed(p.one.w, i)
        /\ ctx[i].operation \notin MessageOps =>
              \A r \in PrimitiveOneshots(i) : r.w.mdctxs = mdctxs

\* C25: on a context whose last call was a successful init of a message
\* operation, rsa_sign with a destination and rsa_verify return what the
\* update followed by the final returns and leave the same state, with
\* flag_allow_update, flag_allow_final and flag_allow_oneshot cleared and
\* every further oneshot out of order; rsa_sign without a destination
\* returns the size and changes nothing.  In a primitive operation rsa_sign
\* and rsa_verify leave every running digest as it was.
C25_OneshotIsUpdateFinal ==
    \A i \in Live :
        /\ InitializedMsg(i) =>
              \A p \in MsgOneshotPairs(i) :
                  IF p.dest
                  THEN p.one = p.two /\ Consumed(p.one.w, i)
                  ELSE p.one.ok /\ p.one.w = World
        /\ ctx[i].operation \notin MessageOps =>
              \A r \in PrimitiveOneshots(i) : r.w.mdctxs = mdctxs

\* a message signature just initialised, whose oneshot with a destination
\* of 256 bytes signs and whose oneshot without one returns the size
C25_Witness ==
    /\ InitializedMsg(1)
    /\ ctx[1].operation = EVP_PKEY_OP_SIGNMSG
    /\ \E tbs \in TbsArgs :
          /\ rsa_sign(World, 1, TRUE, 256, tbs).ok
          /\ rsa_sign(World, 1, FALSE, 256, tbs).ok

(***************************************************************************)
(* Binding a digest while flag_allow_md is off (SpecCfg).                  *)
(***************************************************************************)
BindNames == {"SHA256", "SHA1", "MD5"}

\* the names that rsa_setup_md takes as far as its flag_allow_md test on
\* context i: fetched, with a nid, not an XOF, fit for the padding
Bindable(i) ==
    {n \in BindNames :
        LET md == EVP_MD_fetch(n)
            nid == ossl_digest_rsa_sign_get_md_nid(md)
        IN /\ md # NoMd /\ nid # NID_undef /\ ~EVP_MD_xof(md)
           /\ rsa_check_padding(ctx[i], n, NoName, nid) = ""}

\* C26 as the specification states it: with flag_allow_md off rsa_setup_md
\* returns 1 exactly for the digest that is bound and fails with
\* PROV_R_DIGEST_NOT_ALLOWED for another one, changes nothing, and after
\* a return of 1 the requested digest is the bound one.
C26_AsStated ==
    \A i \in Live :
        ~ctx[i].flag_allow_md =>
            \A n \in Bindable(i) :
                LET r == rsa_setup_md(World, i, n)
                IN /\ r.ok <=> EVP_MD_fetch(n) = ctx[i].md
                   /\ ~r.ok => r.err = "PROV_R_DIGEST_NOT_ALLOWED"
                   /\ r.w = World
                   /\ r.ok => r.w.ctx[i].md = EVP_MD_fetch(n)

(***************************************************************************)
(* The MGF1 digest follows the digest until it is set itself (SpecCfg).    *)
(***************************************************************************)
\* the parameter sets that name a digest and no MGF1 digest
DigestRequests == {p \in CfgParamArgs : p.digest # NoName /\ p.mgf1 = NoName}

\* C27: while mgf1_md_set is off the MGF1 digest is the digest, and a
\* rsa_setup_md that returns 1 with another digest bound has set the MGF1
\* digest to it; once mgf1_md_set is on, neither rsa_setup_md nor a
\* set_ctx_params that names only a digest changes the MGF1 digest, and
\* mgf1_md_set stays on.
C27_Mgf1FollowsDigest ==
    \A i \in Live :
        LET c == ctx[i]
        IN /\ ~c.mgf1_md_set => c.mgf1_md = c.md /\ c.mgf1_mdnid = c.mdnid
           /\ \A n \in BindNames :
                 LET r == rsa_setup_md(World, i, n)
                     d == r.w.ctx[i]
                 IN /\ d.mgf1_md_set = c.mgf1_md_set
                    /\ ~c.mgf1_md_set /\ r.ok /\ d.md # c.md =>
                           d.mgf1_md = EVP_MD_fetch(n) /\ d.mgf1_md = d.md
                    /\ c.mgf1_md_set =>
                           d.mgf1_md = c.mgf1_md /\ d.mgf1_mdnid = c.mgf1_mdnid
           /\ IsComposable(i) /\ c.mgf1_md_set =>
                 \A p \in DigestRequests :
                     LET d == rsa_set_ctx_params(World, i, p).w.ctx[i]
                     IN d.mgf1_md = c.mgf1_md /\ d.mgf1_md_set

\* a context whose MGF1 digest was set to SHA1, on which binding SHA2-256
\* succeeds and replaces another digest
C27_Witness ==
    /\ IsComposable(1) /\ ctx[1].mgf1_md_set
    /\ ctx[1].mgf1_md = "SHA1" /\ ctx[1].md = "MD5"
    /\ rsa_setup_md(World, 1, "SHA256").ok
    /\ rsa_setup_md(World, 1, "SHA256").w.ctx[1].md = "SHA2-256"

(***************************************************************************)
(* The digest lock of a digest-sign or digest-verify operation.            *)
(***************************************************************************)
\* context record c is in a digest-sign or digest-verify operation whose
\* final is still to come
DigestOpOpen(c) ==
    /\ ~c.flag_sigalg /\ c.operation \in MessageOps
    /\ c.mdctx # NULL /\ c.flag_allow_final

\* C28 as the specification states it: in a digest-sign or digest-verify
\* operation that holds flag_allow_md = 0, no call after which the final is
\* still to come sets flag_allow_md.
C28_AsStated ==
    [][\A i \in CtxIds :
          /\ slot[i].live /\ slot'[i].live
          /\ DigestOpOpen(ctx[i]) /\ ~ctx[i].flag_allow_md
          /\ DigestOpOpen(ctx'[i]) /\ ctx'[i].operation = ctx[i].operation
          => ~ctx'[i].flag_allow_md]_vars

(***************************************************************************)
(* The salt length of the algorithm identifier (SpecSalt).                 *)
(* rsa_pss_compute_saltlen reads saltlen, md, rsa and min_saltlen of the   *)
(* context and returns the salt length or -1 with an error raised.         *)
(***************************************************************************)
SaltErr(e) == [err |-> e, saltlen |-> -1]

\* a faulty resolver: it does not compare the result with min_saltlen
compute_saltlen_no_floor(c) ==
    LET mdsize == EVP_MD_get_size(c.md)
        rsasize == RSA_size(c.rsa)
        \* after the tests for DIGEST and AUTO_DIGEST_MAX
        saltlen1 == IF c.saltlen = RSA_PSS_SALTLEN_DIGEST THEN mdsize
                    ELSE IF c.saltlen = RSA_PSS_SALTLEN_AUTO_DIGEST_MAX
                         THEN RSA_PSS_SALTLEN_MAX
                    ELSE c.saltlen
        saltlenMax == IF c.saltlen = RSA_PSS_SALTLEN_AUTO_DIGEST_MAX
                      THEN mdsize ELSE -1
        fromsize == saltlen1 \in {RSA_PSS_SALTLEN_MAX, RSA_PSS_SALTLEN_AUTO}
        \* rsasize - mdsize - 2, one less for a bit length of 1 mod 8, capped
        s0 == rsasize - mdsize - 2
        s1 == IF RSA_bits(c.rsa) % 8 = 1 THEN s0 - 1 ELSE s0
        s2 == IF saltlenMax >= 0 /\ s1 > saltlenMax THEN saltlenMax ELSE s1
        saltlen == IF fromsize THEN s2 ELSE saltlen1
    IN IF /\ c.saltlen \in {RSA_PSS_SALTLEN_DIGEST, RSA_PSS_SALTLEN_AUTO_DIGEST_MAX}
          /\ mdsize <= 0
       THEN SaltErr("PROV_R_INVALID_DIGEST")
       ELSE IF fromsize /\ mdsize <= 0 THEN SaltErr("PROV_R_INVALID_DIGEST")
       ELSE IF fromsize /\ (rsasize <= 2 \/ rsasize - 2 < mdsize)
            THEN SaltErr("PROV_R_INVALID_KEY")
       ELSE IF saltlen < 0 THEN SaltErr("ERR_R_INTERNAL_ERROR")
       ELSE [err |-> "", saltlen |-> saltlen]

\* a faulty resolver: it does not look at the bit length of the modulus
compute_saltlen_any_bits(c) ==
    LET mdsize == EVP_MD_get_size(c.md)
        rsasize == RSA_size(c.rsa)
        \* after the tests for DIGEST and AUTO_DIGEST_MAX
        saltlen1 == IF c.saltlen = RSA_PSS_SALTLEN_DIGEST THEN mdsize
                    ELSE IF c.saltlen = RSA_PSS_SALTLEN_AUTO_DIGEST_MAX
                         THEN RSA_PSS_SALTLEN_MAX
                    ELSE c.saltlen
        saltlenMax == IF c.saltlen = RSA_PSS_SALTLEN_AUTO_DIGEST_MAX
                      THEN mdsize ELSE -1
        fromsize == saltlen1 \in {RSA_PSS_SALTLEN_MAX, RSA_PSS_SALTLEN_AUTO}
        \* rsasize - mdsize - 2, one less for a bit length of 1 mod 8, capped
        s0 == rsasize - mdsize - 2
        s1 == s0
        s2 == IF saltlenMax >= 0 /\ s1 > saltlenMax THEN saltlenMax ELSE s1
        saltlen == IF fromsize THEN s2 ELSE saltlen1
    IN IF /\ c.saltlen \in {RSA_PSS_SALTLEN_DIGEST, RSA_PSS_SALTLEN_AUTO_DIGEST_MAX}
          /\ mdsize <= 0
       THEN SaltErr("PROV_R_INVALID_DIGEST")
       ELSE IF fromsize /\ mdsize <= 0 THEN SaltErr("PROV_R_INVALID_DIGEST")
       ELSE IF fromsize /\ (rsasize <= 2 \/ rsasize - 2 < mdsize)
            THEN SaltErr("PROV_R_INVALID_KEY")
       ELSE IF saltlen < 0 THEN SaltErr("ERR_R_INTERNAL_ERROR")
       ELSE IF saltlen < c.min_saltlen
            THEN SaltErr("PROV_R_PSS_SALTLEN_TOO_SMALL")
       ELSE [err |-> "", saltlen |-> saltlen]

rsa_pss_compute_saltlen(c) ==
    LET mdsize == EVP_MD_get_size(c.md)
        rsasize == RSA_size(c.rsa)
        \* after the tests for DIGEST and AUTO_DIGEST_MAX
        saltlen1 == IF c.saltlen = RSA_PSS_SALTLEN_DIGEST THEN mdsize
                    ELSE IF c.saltlen = RSA_PSS_SALTLEN_AUTO_DIGEST_MAX
                         THEN RSA_PSS_SALTLEN_MAX
                    ELSE c.saltlen
        saltlenMax == IF c.saltlen = RSA_PSS_SALTLEN_AUTO_DIGEST_MAX
                      THEN mdsize ELSE -1
        fromsize == saltlen1 \in {RSA_PSS_SALTLEN_MAX, RSA_PSS_SALTLEN_AUTO}
        \* rsasize - mdsize - 2, one less for a bit length of 1 mod 8, capped
        s0 == rsasize - mdsize - 2
        s1 == IF RSA_bits(c.rsa) % 8 = 1 THEN s0 - 1 ELSE s0
        s2 == IF saltlenMax >= 0 /\ s1 > saltlenMax THEN saltlenMax ELSE s1
        saltlen == IF fromsize THEN s2 ELSE saltlen1
    IN IF /\ c.saltlen \in {RSA_PSS_SALTLEN_DIGEST, RSA_PSS_SALTLEN_AUTO_DIGEST_MAX}
          /\ mdsize <= 0
       THEN SaltErr("PROV_R_INVALID_DIGEST")
       ELSE IF fromsize /\ mdsize <= 0 THEN SaltErr("PROV_R_INVALID_DIGEST")
       ELSE IF fromsize /\ (rsasize <= 2 \/ rsasize - 2 < mdsize)
            THEN SaltErr("PROV_R_INVALID_KEY")
       ELSE IF saltlen < 0 THEN SaltErr("ERR_R_INTERNAL_ERROR")
       ELSE IF saltlen < c.min_saltlen
            THEN SaltErr("PROV_R_PSS_SALTLEN_TOO_SMALL")
       ELSE [err |-> "", saltlen |-> saltlen]

\* the DER writers of the two identifiers succeed for a known digest nid
NoAid == [pad_mode |-> 0, mdnid |-> 0, mgf1_mdnid |-> 0, saltlen |-> -1]
AidErr(e) == [err |-> e, aid |-> NoAid]

rsa_generate_signature_aid(c) ==
    CASE c.pad_mode = RSA_PKCS1_PADDING ->
           IF c.mdnid # NID_undef
           THEN [err |-> "",
                 aid |-> [NoAid EXCEPT !.pad_mode = c.pad_mode, !.mdnid = c.mdnid]]
           ELSE AidErr("ERR_R_UNSUPPORTED")
      [] c.pad_mode = RSA_PKCS1_PSS_PADDING ->
           LET s == rsa_pss_compute_saltlen(c)
           IN IF s.saltlen < 0 THEN AidErr(s.err)
              ELSE IF c.mdnid = NID_undef \/ c.mgf1_mdnid = NID_undef
                   THEN AidErr("ERR_R_INTERNAL_ERROR")
              ELSE [err |-> "",
                    aid |-> [pad_mode |-> c.pad_mode, mdnid |-> c.mdnid,
                             mgf1_mdnid |-> c.mgf1_mdnid, saltlen |-> s.saltlen]]
      [] OTHER -> AidErr("ERR_R_UNSUPPORTED")

\* rsa_get_ctx_params asked for OSSL_SIGNATURE_PARAM_ALGORITHM_ID alone
GetAlgorithmId(i) ==
    /\ slot[i].live
    /\ LET a == rsa_generate_signature_aid(ctx[i])
       IN Commit(i, "get", IF a.err = "" THEN Ok(World) ELSE Fail(World, a.err))

\* the contexts the resolver is applied to: one context after an init with
\* an RSA-PSS key, with a digest or none, a salt length policy or number
\* and a salt floor
SaltKeys == {2, 5, 6, 7, 8}
SaltDigests == {NoMd, "SHA1", "SHA2-256", "MD5"}
SaltLenArgs == {RSA_PSS_SALTLEN_DIGEST, RSA_PSS_SALTLEN_AUTO, RSA_PSS_SALTLEN_MAX,
                RSA_PSS_SALTLEN_AUTO_DIGEST_MAX, 0, 11, 20, 40}
SaltFloors == {-1, 12, 24}

SaltCtx(k, md, saltlen, floor) ==
    [rsa_newctx EXCEPT
       !.rsa = k, !.operation = EVP_PKEY_OP_SIGN,
       !.flag_allow_update = TRUE, !.flag_allow_final = TRUE,
       !.flag_allow_oneshot = TRUE,
       !.pad_mode = RSA_PKCS1_PSS_PADDING,
       !.md = md, !.mdnid = ossl_digest_rsa_sign_get_md_nid(md), !.mdname = md,
       !.mgf1_md = md, !.mgf1_mdnid = ossl_digest_rsa_sign_get_md_nid(md),
       !.mgf1_mdname = md,
       !.saltlen = saltlen, !.min_saltlen = floor]

InitSalt ==
    /\ slot = [i \in CtxIds |-> IF i = 1 THEN [live |-> TRUE, impl |-> Composable]
                                ELSE NoSlot]
    /\ \E k \in SaltKeys, md \in SaltDigests, saltlen \in SaltLenArgs,
          floor \in SaltFloors :
          /\ ctx = [i \in CtxIds |-> IF i = 1 THEN SaltCtx(k, md, saltlen, floor)
                                     ELSE ZeroCtx]
          /\ keyref = [j \in Keys |-> IF j = k THEN 2 ELSE 1]
    /\ mdctxs = [a \in Addrs |-> FreeMdCtx]
    /\ tbufs = [a \in Addrs |-> FreeTbuf]
    /\ sigs = [a \in Addrs |-> FreeSigBuf]
    /\ fault = "none"
    /\ hist = [i \in CtxIds |-> IF i = 1 THEN [NoHist EXCEPT !.bound = TRUE,
                                                            !.init = TRUE]
                                ELSE NoHist]
    /\ twin = NoTwin

NextSalt == GetAlgorithmId(1)

SpecSalt == InitSalt /\ [][NextSalt]_vars

(***************************************************************************)
(* What the resolver returns (SpecSalt).                                   *)
(***************************************************************************)
\* the resolver on context i, and on context i with the floor taken away
Resolved(i) == rsa_pss_compute_saltlen(ctx[i])
ResolvedNoFloor(i) == rsa_pss_compute_saltlen([ctx[i] EXCEPT !.min_saltlen = -1])

\* C29: when rsa_pss_compute_saltlen returns a salt length it is >= 0 and
\* >= min_saltlen, whatever saltlen, digest and key the context has; it
\* raises PROV_R_PSS_SALTLEN_TOO_SMALL exactly when the salt length it
\* would return without a floor is below min_saltlen; with an error raised
\* it returns -1.
C29_ResolvedAboveFloor ==
    \A i \in Live :
        /\ Resolved(i).err = "" =>
              Resolved(i).saltlen >= 0 /\ Resolved(i).saltlen >= ctx[i].min_saltlen
        /\ Resolved(i).err # "" => Resolved(i).saltlen = -1
        /\ Resolved(i).err = "PROV_R_PSS_SALTLEN_TOO_SMALL"
              <=> /\ ResolvedNoFloor(i).err = ""
                  /\ ResolvedNoFloor(i).saltlen < ctx[i].min_saltlen

\* the algorithm identifier was asked for on a context with key 6 (34
\* bytes, 265 bits), MD5, policy MAX and floor 12: the resolver returns 15
C29_Witness ==
    /\ ~hist[1].init
    /\ ctx[1].rsa = 6 /\ ctx[1].md = "MD5"
    /\ ctx[1].saltlen = RSA_PSS_SALTLEN_MAX /\ ctx[1].min_saltlen = 12
    /\ Resolved(1) = [err |-> "", saltlen |-> 15]

\* modulus bytes - digest size - 2, one less when the bit length is 1 mod 8
MaxSalt(c) ==
    RSA_size(c.rsa) - EVP_MD_get_size(c.md) - 2
        - (IF RSA_bits(c.rsa) % 8 = 1 THEN 1 ELSE 0)
\* the salt length of context record c by the rules of the policies
PolicySalt(c) ==
    CASE c.saltlen = RSA_PSS_SALTLEN_DIGEST -> EVP_MD_get_size(c.md)
      [] c.saltlen \in {RSA_PSS_SALTLEN_MAX, RSA_PSS_SALTLEN_AUTO} -> MaxSalt(c)
      [] c.saltlen = RSA_PSS_SALTLEN_AUTO_DIGEST_MAX ->
           Min({EVP_MD_get_size(c.md), MaxSalt(c)})
      [] OTHER -> c.saltlen

\* C30: a salt length that rsa_pss_compute_saltlen returns is the digest
\* size for DIGEST, RSA_size - digest size - 2 (one less when RSA_bits mod
\* 8 is 1) for MAX and AUTO, the smaller of the two for AUTO_DIGEST_MAX and
\* the number itself for a number >= 0; with MAX, AUTO or AUTO_DIGEST_MAX
\* and a digest, RSA_size - 2 < digest size raises PROV_R_INVALID_KEY; and
\* it does return the salt length when there is a digest (or the request is
\* a number), the modulus is large enough and the salt length is >= 0 and
\* >= min_saltlen.
C30_ResolverFormula ==
    \A i \in Live :
        LET c == ctx[i]
            d == EVP_MD_get_size(c.md)
            frommod == c.saltlen \in {RSA_PSS_SALTLEN_MAX, RSA_PSS_SALTLEN_AUTO,
                                      RSA_PSS_SALTLEN_AUTO_DIGEST_MAX}
            tooshort == frommod /\ RSA_size(c.rsa) - 2 < d
        IN /\ Resolved(i).err = "" => Resolved(i).saltlen = PolicySalt(c)
           /\ tooshort /\ d > 0 => Resolved(i).err = "PROV_R_INVALID_KEY"
           /\ /\ c.saltlen < 0 => d > 0
              /\ ~tooshort
              /\ PolicySalt(c) >= 0 /\ PolicySalt(c) >= c.min_saltlen
              => Resolved(i) = [err |-> "", saltlen |-> PolicySalt(c)]

\* the algorithm identifier was asked for on a context with key 6 (34
\* bytes, 265 bits), SHA1 and policy AUTO_DIGEST_MAX: 34 - 20 - 2 - 1 = 11
\* is below the digest size and is what the resolver returns
C30_Witness ==
    /\ ~hist[1].init
    /\ ctx[1].rsa = 6 /\ ctx[1].md = "SHA1"
    /\ ctx[1].saltlen = RSA_PSS_SALTLEN_AUTO_DIGEST_MAX /\ ctx[1].min_saltlen = -1
    /\ MaxSalt(ctx[1]) = 11
    /\ Resolved(1) = [err |-> "", saltlen |-> 11]

(***************************************************************************)
(* The salt length of a PSS signature against the resolver (SpecCfg).      *)
(***************************************************************************)
\* a digest value of the size the digest of context i gives
SizedTbs(i) == Tbs(EVP_MD_get_size(ctx[i].md), ctx[i].md, <<"a">>)

\* rsa_sign_directly on context i with a destination of the modulus size
PssSign(i) == rsa_sign_directly(World, i, TRUE, RSA_size(ctx[i].rsa), SizedTbs(i))

ResolverErrors ==
    {"PROV_R_INVALID_DIGEST", "PROV_R_INVALID_KEY", "PROV_R_PSS_SALTLEN_TOO_SMALL"}

\* C31 as the specification states it: with PSS padding the salt length of
\* the signature rsa_sign_directly makes is what rsa_pss_compute_saltlen
\* returns for the context, and when rsa_pss_compute_saltlen raises
\* PROV_R_INVALID_DIGEST, PROV_R_INVALID_KEY or
\* PROV_R_PSS_SALTLEN_TOO_SMALL the sign returns 0 without a signature.
C31_AsStated ==
    \A i \in Live :
        ctx[i].rsa # NULL /\ ctx[i].pad_mode = RSA_PKCS1_PSS_PADDING =>
            /\ PssSign(i).ok => PssSign(i).out.sig.salt = Resolved(i).saltlen
            /\ Resolved(i).err \in ResolverErrors =>
                  ~PssSign(i).ok /\ PssSign(i).out.sig = NoSig

(***************************************************************************)
(* Salt floors of restricted keys (SpecFloor): one composable context      *)
(* with the RSA-PSS keys, the salt length parameter, the primitive sign    *)
(* and the algorithm identifier.                                           *)
(***************************************************************************)
FloorKeyArgs == {NULL, 2, 3, 4, 9, 10}
FloorSaltArgs == {RSA_PSS_SALTLEN_DIGEST, RSA_PSS_SALTLEN_MAX,
                 RSA_PSS_SALTLEN_AUTO_DIGEST_MAX, 20, 222, 224}
FloorParamArgs ==
    {[EmptyParams EXCEPT !.has_saltlen = TRUE, !.saltlen = n] : n \in FloorSaltArgs}
FloorTbs == Tbs(32, "SHA2-256", <<"a">>)
\* PSS signatures of FloorTbs under key 3, made with 20 and with 24 salt bytes
FloorSigArgs ==
    {Signature(3, RSA_PKCS1_PSS_PADDING, 672, "SHA1", n, FloorTbs) : n \in {20, 24}}

FloorCall(i) ==
    \/ \E vrsa \in FloorKeyArgs : SignInit(i, vrsa, EmptyParams)
    \/ \E vrsa \in FloorKeyArgs : VerifyInit(i, vrsa, EmptyParams)
    \/ \E p \in FloorParamArgs : SetCtxParams(i, p)
    \/ Sign(i, TRUE, 256, FloorTbs)
    \/ \E sg \in FloorSigArgs : Verify(i, sg, FloorTbs)
    \/ GetAlgorithmId(i)

NextFloor ==
    \/ NewCtx(1, Composable)
    \/ FloorCall(1)
    \/ FreeCtx(1)

SpecFloor == Init /\ [][NextFloor]_vars

(* The salt floor at sign time and in the salt length parameter. *)
\* the requested salt length of context c lies below the floor of its key
BelowFloor(c) ==
    \/ c.saltlen >= 0 /\ c.saltlen < c.min_saltlen
    \/ c.saltlen = RSA_PSS_SALTLEN_DIGEST /\ EVP_MD_get_size(c.md) < c.min_saltlen

\* a PSS context with a digest whose key imposes a salt floor
Floored(i) ==
    /\ ctx[i].rsa # NULL
    /\ ctx[i].pad_mode = RSA_PKCS1_PSS_PADDING
    /\ ctx[i].md # NoMd
    /\ rsa_pss_restricted(ctx[i])

\* the context after rsa_set_ctx_params with parameters p
AfterSet(i, p) == rsa_set_ctx_params(World, i, p).w.ctx[i]

\* C32: on a context whose key imposes a salt floor, a PSS sign with a
\* concrete salt length below the floor, or with the DIGEST policy and a
\* digest smaller than the floor, fails with PSS_SALTLEN_TOO_SMALL and gives
\* no signature; and no rsa_set_ctx_params that sets the salt length and
\* returns 1 stores a concrete salt length below the floor.
C32_FloorAtSignAndSet ==
    \A i \in Live :
        Floored(i) =>
            /\ BelowFloor(ctx[i]) =>
                  /\ ~PssSign(i).ok
                  /\ PssSign(i).err = "PROV_R_PSS_SALTLEN_TOO_SMALL"
                  /\ PssSign(i).out.sig = NoSig
            /\ \A p \in FloorParamArgs :
                  rsa_set_ctx_params(World, i, p).ok =>
                      ~(/\ AfterSet(i, p).saltlen >= 0
                        /\ AfterSet(i, p).saltlen < AfterSet(i, p).min_saltlen)

\* a floor of 24 with the salt length 20 requested: the sign is refused, the
\* parameter 20 is refused and the parameter 222 is stored
C32_Witness ==
    /\ 1 \in Live /\ Floored(1)
    /\ ctx[1].min_saltlen = 24 /\ ctx[1].saltlen = 20
    /\ PssSign(1).err = "PROV_R_PSS_SALTLEN_TOO_SMALL"
    /\ \E p \in FloorParamArgs :
          /\ p.saltlen = 20
          /\ rsa_set_ctx_params(World, 1, p).err = "PROV_R_PSS_SALTLEN_TOO_SMALL"
    /\ \E p \in FloorParamArgs :
          /\ rsa_set_ctx_params(World, 1, p).ok
          /\ AfterSet(1, p).saltlen = 222

(* The salt floor at verify time (SpecFloor). *)
\* C33 as the specification states it: on a context whose key imposes a
\* salt floor, the verify transform rejects every PSS signature whose salt is
\* shorter than the floor.
C33_AsStated ==
    \A i \in Live :
        Floored(i) =>
            \A sg \in FloorSigArgs :
                sg.salt < ctx[i].min_saltlen =>
                    ~rsa_verify_directly(World, i, sg, FloorTbs).ok

(* The floor init accepts against the largest salt the resolver gives (SpecFloor). *)
\* C39 as the specification states it: on a context whose init accepted the
\* salt floor of its key, the resolver under the MAX policy succeeds with a
\* salt length not below the floor.
C39_AsStated ==
    \A i \in Live :
        Floored(i) /\ ctx[i].saltlen = RSA_PSS_SALTLEN_MAX =>
            /\ Resolved(i).err = ""
            /\ Resolved(i).saltlen >= ctx[i].min_saltlen

(* The signature a verify-message final checks (Spec). *)
\* a successful rsa_md_verify_message_init on context i that stages nothing
PlainVerifyMessageInit(i) ==
    /\ \E vrsa \in KeyArgs : SigalgVerifyMessageInit(i, vrsa, EmptyParams)
    /\ hist'[i].init

\* C34 as the specification states it: a verify-message final is never
\* evaluated against a signature staged before the most recent init, so
\* after an init that stages nothing no earlier signature is left for
\* rsa_verify_message_final to hand to rsa_verify_directly.
C34_AsStated ==
    [][PlainVerifyMessageInit(1) =>
          ~(/\ ctx'[1].mdctx # NULL
            /\ ctx'[1].flag_allow_final
            /\ ctx'[1].sig # NULL)]_vars

(* The lifecycle flags (SpecDup). *)
\* the three flags of context c are all equal to b
FlagsAll(c, b) ==
    /\ c.flag_allow_update = b
    /\ c.flag_allow_final = b
    /\ c.flag_allow_oneshot = b

\* the finals of context i that are given a destination or a signature
FinalCalls(i) ==
    {rsa_verify_message_final(World, i, TRUE),
     rsa_sign_message_final(World, i, TRUE, RSA_size(ctx[i].rsa))}

\* C35: in every state of every context, created or duplicated,
\* flag_allow_update = flag_allow_final and flag_allow_oneshot implies
\* flag_allow_update; an update changes no flag but flag_allow_oneshot, which
\* it clears; a final that consumes the digest clears all three; an init that
\* returns 1 sets all three.
C35_LifecycleFlags ==
    \A i \in Live :
        /\ ctx[i].flag_allow_update = ctx[i].flag_allow_final
        /\ ctx[i].flag_allow_oneshot => ctx[i].flag_allow_update
        /\ \A data \in Chunks :
              LET r == rsa_signverify_message_update(World, i, data)
              IN /\ r.w.ctx[i].flag_allow_update = ctx[i].flag_allow_update
                 /\ r.w.ctx[i].flag_allow_final = ctx[i].flag_allow_final
                 /\ r.ok => ~r.w.ctx[i].flag_allow_oneshot
        /\ \A r \in FinalCalls(i) :
              Finalised(r.w, i) /\ ~Finalised(World, i) =>
                  FlagsAll(r.w.ctx[i], FALSE)
        /\ \A vrsa \in {NULL, 2} :
              LET r == rsa_verify_init(World, i, vrsa, EmptyParams)
              IN r.ok => FlagsAll(r.w.ctx[i], TRUE)

\* two contexts, one a copy of the other: one has taken an update and can
\* still take its final, the other has consumed its digest in a final
C35_Witness ==
    \E i, j \in Live :
        /\ i # j
        /\ ~ctx[i].flag_allow_oneshot /\ ctx[i].flag_allow_update
        /\ \E r \in FinalCalls(i) : Finalised(r.w, i) /\ ~Finalised(World, i)
        /\ Finalised(World, j) /\ FlagsAll(ctx[j], FALSE)

(* The pad mode of a context bound to an RSA-PSS key (SpecCfg). *)
PssTyped(i) ==
    ctx[i].rsa # NULL /\ RSA_test_flags(ctx[i].rsa) = RSA_FLAG_TYPE_RSASSAPSS

OtherPadWords == {"pkcs1", "x931", "none"}

SignConfig(c) == <<c.pad_mode, c.saltlen, c.md, c.mdname, c.mgf1_md, c.mgf1_mdname>>

\* C37 as the specification states it: an rsa_set_ctx_params that returns 0
\* leaves pad mode, salt length, digest and MGF1 digest as they were.
C37_AsStated ==
    \A i \in Live :
        \A p \in CfgParamArgs :
            LET r == rsa_set_ctx_params(World, i, p)
            IN ~r.ok => SignConfig(r.w.ctx[i]) = SignConfig(ctx[i])

(* Calls after an init that failed (Spec). *)
\* a primitive init of the composable algorithm on context i that returns 0
FailedInit(i) ==
    \E vrsa \in KeyArgs, p \in InitParamArgs :
        \/ SignInit(i, vrsa, p) /\ ~rsa_sign_init(World, i, vrsa, p).ok
        \/ VerifyInit(i, vrsa, p) /\ ~rsa_verify_init(World, i, vrsa, p).ok
        \/ VerifyRecoverInit(i, vrsa, p)
              /\ ~rsa_verify_recover_init(World, i, vrsa, p).ok

\* some oneshot sign or verify on context i returns 1
OneshotSucceeds(i) ==
    \/ \E tbs \in TbsArgs : rsa_sign(World, i, TRUE, 256, tbs).ok
    \/ \E sg \in SigArgs, tbs \in TbsArgs : rsa_verify(World, i, sg, tbs, TRUE).ok

\* C38 as the specification states it: on a context whose latest init
\* returned 0, no oneshot sign or verify succeeds.
C38_AsStated == [][FailedInit(1) => ~OneshotSucceeds(1)']_vars

(* Update and final against the operation of the context (Spec). *)
PrimitiveOps == {EVP_PKEY_OP_SIGN, EVP_PKEY_OP_VERIFY, EVP_PKEY_OP_VERIFYRECOVER}

\* the update and final calls the dispatch table of context i offers
UpdateFinalCalls(i) ==
    IF IsSigalg(i)
    THEN {rsa_signverify_message_update(World, i, d) : d \in Chunks}
         \cup {rsa_sign_message_final(World, i, TRUE, 256),
               rsa_verify_message_final(World, i, TRUE)}
    ELSE {rsa_digest_sign_update(World, i, d) : d \in Chunks}
         \cup {rsa_digest_verify_update(World, i, d) : d \in Chunks}
         \cup {rsa_digest_sign_final(World, i, TRUE, 256)}
         \cup {rsa_digest_verify_final(World, i, sg, TRUE) : sg \in SigArgs}

\* C40 as the specification states it: a context whose operation is SIGN,
\* VERIFY or VERIFYRECOVER rejects every update and every final.
C40_AsStated ==
    \A i \in Live :
        ctx[i].operation \in PrimitiveOps =>
            \A r \in UpdateFinalCalls(i) : ~r.ok

====
